---- MODULE Spec2Model ----
(***************************************************************************)
(* Model of the stochastic samplers of ensembler                           *)
(* (src/ensembler/samplers/stochastic.py): random_shift, the Monte Carlo   *)
(* and Metropolis Monte Carlo steps and the two Langevin steps, acting on  *)
(* a one-dimensional system with a harmonic-oscillator potential           *)
(* (src/ensembler/potentials/OneD.py).  Each sampler has a specification   *)
(* of its own: SpecShift, SpecMC, SpecMMC, SpecLangevin.                   *)
(*                                                                         *)
(* Numbers.  Positions, shifts and energies are integers: a position n     *)
(* stands for n * 0.005, so that the class attribute resolution = 0.01 is  *)
(* 2 units and "a multiple of resolution" is an even number.  Floating     *)
(* point products and quotients are computed exactly where the operands    *)
(* allow it and truncated toward zero otherwise.                           *)
(*                                                                         *)
(* Python values.  A value that may be None or not-a-number is a record    *)
(* [tag, v]: Num(v), PyNone or NaN.  A tuple such as spaceRange is a       *)
(* sequence, and the absent tuple is NoRange.  np.inf as a limit is Inf.   *)
(***************************************************************************)
EXTENDS Integers, Sequences, FiniteSets, TLC

VARIABLES
    sampler,    \* the (metropolis)MonteCarloIntegrator object: its attributes
    langevin,   \* the langevin(Velocity)Integrator object: its attributes
    system,     \* the system handed to step(): the fields the samplers touch
    pc,         \* where control is: "idle" or inside a step's loop
    frame,      \* the running step's local variables, and what it did so far
    ret,        \* how the last call ended: nothing yet, a returned tuple, a raise
    warnings,   \* the warnings.warn calls of the last call, in order
    calls,      \* how many calls were made, where a specification bounds them
    eds,        \* the edsSystem instances, by the name the caller holds them under
    heap        \* the potential and sampler objects that instances refer to

vars == <<sampler, langevin, system, pc, frame, ret, warnings, calls, eds, heap>>

----------------------------------------------------------------------------
(* Bounds of the model *)

\* positions of the system at the start lie in -MaxPos..MaxPos
MaxPos == 2
\* step sizes (fixed, minimal, coefficient) are drawn from 1..MaxStepSize
MaxStepSize == 2
\* finite iteration limits are drawn from -1..MaxLimit
MaxLimit == 2
\* random_shift is called for 1..MaxDim dimensions
MaxDim == 2
\* Gaussian draws are abstracted to -MaxNormal..MaxNormal
MaxNormal == 1
\* a Langevin sampler is stepped at most MaxCalls times
MaxCalls == 2

\* cap on the rejections of one metropolis step; above every finite limit
MaxIter == MaxLimit + 2

----------------------------------------------------------------------------
(* Python values *)

Num(x) == [tag |-> "num", v |-> x]
PyNone == [tag |-> "None", v |-> 0]
NaN == [tag |-> "nan", v |-> 0]
IsNum(o) == o.tag = "num"

NoRange == <<>>
Inf == [tag |-> "inf", v |-> 0]

\* a <= lim, a >= lim and lim <= a for a finite a and a limit that may be np.inf
LeqLim(a, lim) == lim.tag = "inf" \/ a <= lim.v
GeqLim(a, lim) == lim.tag = "num" /\ a >= lim.v
LimLeq(lim, a) == lim.tag = "num" /\ lim.v <= a

Abs(x) == IF x < 0 THEN -x ELSE x
Min2(a, b) == IF a <= b THEN a ELSE b
Max2(a, b) == IF a >= b THEN a ELSE b

\* int(a / b) for b > 0: the quotient truncated toward zero
TruncDiv(a, b) == IF a >= 0 THEN a \div b ELSE -((-a) \div b)

\* floor of the square root
ISqrt(n) == CHOOSE r \in 0..n : r * r <= n /\ (r + 1) * (r + 1) > n

----------------------------------------------------------------------------
(* stochasticSampler *)

\* class attribute resolution = 0.01, in units of 0.005
resolution == 2

\* min(self.spaceRange), max(self.spaceRange)
RangeMin(self) == Min2(self.spaceRange[1], self.spaceRange[2])
RangeMax(self) == Max2(self.spaceRange[1], self.spaceRange[2])

\* _critInSpaceRange without the upper bound
critInSpaceRange_NoUpper(self, pos) ==
    \/ self.spaceRange = NoRange
    \/ /\ self.spaceRange # NoRange
       /\ pos >= RangeMin(self)

\* _critInSpaceRange without the lower bound
critInSpaceRange_NoLower(self, pos) ==
    \/ self.spaceRange = NoRange
    \/ /\ self.spaceRange # NoRange
       /\ pos <= RangeMax(self)

\* _critInSpaceRange
critInSpaceRange(self, pos) ==
    \/ self.spaceRange = NoRange
    \/ /\ self.spaceRange # NoRange
       /\ pos >= RangeMin(self)
       /\ pos <= RangeMax(self)

\* the bounds handed to np.random.randint, which takes int() of each
RandintLow(self) == TruncDiv(RangeMin(self), resolution)
RandintHigh(self) == TruncDiv(RangeMax(self), resolution)

\* the branches of random_shift with the ranged draw tested first
ShiftPolicy_RangedFirst(self) ==
    IF self.spaceRange # NoRange THEN "ranged"
    ELSE IF self.fixedStepSize # PyNone THEN "fixed"
    ELSE "coefficient"

\* which branch of random_shift draws the magnitude
ShiftPolicy(self) ==
    IF self.fixedStepSize # PyNone THEN "fixed"
    ELSE IF self.spaceRange # NoRange THEN "ranged"
    ELSE "coefficient"

\* the raw random numbers one dimension may get: none for a fixed step, the
\* integers of randint(low, high) for a ranged one, and for the free one the
\* values step_size_coefficient * rand() takes on the unit grid, rand() in [0, 1)
DrawSet(self) ==
    CASE ShiftPolicy(self) = "fixed" -> {0}
      [] ShiftPolicy(self) = "ranged" -> RandintLow(self)..(RandintHigh(self) - 1)
      [] OTHER -> 0..(self.step_size_coefficient - 1)

\* np.random.randint raises ValueError("low >= high") on an empty interval
RandomShiftRaises(self) ==
    ShiftPolicy(self) = "ranged" /\ RandintLow(self) >= RandintHigh(self)

\* shift, before the sign and the minimal step size are applied
ShiftMagnitude(self, draw) ==
    CASE ShiftPolicy(self) = "fixed" -> self.fixedStepSize.v
      [] ShiftPolicy(self) = "ranged" -> Abs(draw) * resolution
      [] OTHER -> draw

\* the replacement of too small components
MinStepClamp(self, s) == IF s > self.minStepSize.v THEN s ELSE self.minStepSize.v

\* random_shift replacing small components only when every component is small
random_shift_all_below(self, nDimensions, sign, draw) ==
    LET shift == [i \in 1..nDimensions |-> ShiftMagnitude(self, draw[i])]
    IN  IF /\ self.minStepSize # PyNone
           /\ \A i \in 1..nDimensions : shift[i] < self.minStepSize.v
        THEN [i \in 1..nDimensions |-> sign[i] * MinStepClamp(self, shift[i])]
        ELSE [i \in 1..nDimensions |-> sign[i] * shift[i]]

\* random_shift(nDimensions): the new self.posShift, for the drawn signs and numbers
random_shift(self, nDimensions, sign, draw) ==
    LET shift == [i \in 1..nDimensions |-> ShiftMagnitude(self, draw[i])]
    IN  IF /\ self.minStepSize # PyNone
           /\ \E i \in 1..nDimensions : shift[i] < self.minStepSize.v
        THEN [i \in 1..nDimensions |-> sign[i] * MinStepClamp(self, shift[i])]
        ELSE [i \in 1..nDimensions |-> sign[i] * shift[i]]

Signs(nDimensions) == [1..nDimensions -> {-1, 1}]
Draws(self, nDimensions) == [1..nDimensions -> DrawSet(self)]

----------------------------------------------------------------------------
(* The potential: harmonicOscillatorPotential, V = 0.5 k (r - r_0)^2 + Voffset *)

\* potential.ene(position): the evaluator of V
ene(potential, position) ==
    TruncDiv(potential.k * (position - potential.x_shift) * (position - potential.x_shift), 2)
        + potential.y_shift

\* potential.force(position): the evaluator of dVdpos = diff(V, position)
force(potential, position) == potential.k * (position - potential.x_shift)

\* a potential without, and with, an unbiased reference potential (the
\* attribute origPotential of the enhanced sampling potentials)
NoOrigPotential == <<>>
PlainPotentials == [k : {2}, x_shift : {0, 1}, y_shift : {0}, origPotential : {NoOrigPotential}]
Potentials ==
    PlainPotentials \cup
    [k : {2}, x_shift : {0, 1}, y_shift : {0}, origPotential : {<<p>> : p \in PlainPotentials}]

----------------------------------------------------------------------------
(* How a call ends *)

NoResult == [kind |-> "none", exc |-> "", value |-> <<>>]
Returned(tuple) == [kind |-> "return", exc |-> "", value |-> tuple]
Raised(e) == [kind |-> "raise", exc |-> e, value |-> <<>>]

----------------------------------------------------------------------------
(* The objects at the start *)

StepSizes == 1..MaxStepSize
Positions == (-MaxPos)..MaxPos
Limits == {Inf} \cup {Num(n) : n \in (-1)..MaxLimit}

\* spaceRange as given to the constructor: absent, symmetric, given as (max, min),
\* and narrower than one resolution step
SpaceRanges == {NoRange, <<-MaxPos, MaxPos>>, <<MaxPos, 1>>, <<1, 1>>}

\* monteCarloIntegrator.__init__ / metropolisMonteCarloIntegrator.__init__;
\* posShift is the class attribute 0, convergence_limit the class attribute
\* np.inf unless assigned, oldpos and newPos are not set before the first step
NewSampler(cls, space_range, step_size_coefficient, minimal_step_size, fixed_step_size, max_iteration_tillAccept, convergence_limit) ==
    [cls |-> cls,
     fixedStepSize |-> fixed_step_size,
     minStepSize |-> minimal_step_size,
     step_size_coefficient |-> step_size_coefficient,
     spaceRange |-> space_range,
     posShift |-> <<0>>,
     oldpos |-> PyNone,
     newPos |-> PyNone,
     maxIterationTillAccept |-> max_iteration_tillAccept,
     convergence_limit |-> convergence_limit]

\* a one-dimensional system at position p with velocity v: currentState was built
\* from the scratch fields, the potential energy being that of the position
NewSystem(potential, p, v, reweighting) ==
    [nDimensions |-> 1,
     potential |-> potential,
     reweighting |-> reweighting,
     temperature |-> 1,
     mass |-> 1,
     _currentPosition |-> p,
     _currentVelocities |-> v,
     _currentForce |-> 0,
     current_state |-> [position |-> p, total_potential_energy |-> ene(potential, p)]]

\* no instance and no object: the specifications of the samplers hold none
NoObjects == <<>>

NoSampler == NewSampler("none", NoRange, 1, PyNone, PyNone, Inf, Inf)
NoLangevin == [cls |-> "none"]
NoSystem == NewSystem([k |-> 2, x_shift |-> 0, y_shift |-> 0, origPotential |-> NoOrigPotential], 0, 0, FALSE)

\* the running step's locals; proposals, verdict, exit and entry record what the
\* step did: the shifts drawn so far (counted up to MaxIter + 1), the fate of the
\* last one, how the loop was left, and the system as the step found it; for
\* random_shift called on its own the signs and numbers it drew; for a
\* Langevin sampler also the old_position it was constructed with and, in
\* history, what each of its steps so far read, used and left
IdleFrame ==
    [current_iteration |-> 0, current_state |-> [position |-> 0, total_potential_energy |-> 0],
     nDimensions |-> 0, new_ene |-> PyNone, proposals |-> 0, verdict |-> "none",
     exit |-> "none", entry |-> NoSystem, curr_random |-> PyNone,
     old_position |-> PyNone, history |-> <<>>, drawn |-> <<>>]

----------------------------------------------------------------------------
(* stochasticSampler.random_shift called on its own *)

InitShift ==
    /\ sampler \in {NewSampler("stochasticSampler", r, c, m, f, Inf, Inf) :
                      r \in SpaceRanges, c \in StepSizes,
                      m \in {PyNone} \cup {Num(x) : x \in StepSizes},
                      f \in {PyNone} \cup {Num(x) : x \in StepSizes}}
    /\ langevin = NoLangevin
    /\ system = NoSystem
    /\ pc = "idle"
    /\ frame = IdleFrame
    /\ ret = NoResult
    /\ warnings = <<>>
    /\ calls = 0
    /\ eds = NoObjects
    /\ heap = NoObjects

\* random_shift(nDimensions) returning np.squeeze(self.posShift)
RandomShift(nDimensions) ==
    /\ ~RandomShiftRaises(sampler)
    /\ \E sign \in Signs(nDimensions), draw \in Draws(sampler, nDimensions) :
         LET shift == random_shift(sampler, nDimensions, sign, draw)
         IN  /\ sampler' = [sampler EXCEPT !.posShift = shift]
             /\ ret' = Returned([i \in 1..nDimensions |-> Num(shift[i])])
             /\ frame' = [IdleFrame EXCEPT !.nDimensions = nDimensions,
                                           !.drawn = [sign |-> sign, draw |-> draw]]
    /\ UNCHANGED <<langevin, system, pc, warnings, calls, eds, heap>>

\* random_shift(nDimensions) when np.random.randint refuses its bounds
RandomShiftError(nDimensions) ==
    /\ RandomShiftRaises(sampler)
    /\ ret' = Raised("ValueError: low >= high")
    /\ frame' = [IdleFrame EXCEPT !.nDimensions = nDimensions]
    /\ UNCHANGED <<sampler, langevin, system, pc, warnings, calls, eds, heap>>

NextShift ==
    \E nDimensions \in 1..MaxDim :
        \/ RandomShift(nDimensions)
        \/ RandomShiftError(nDimensions)

SpecShift == InitShift /\ [][NextShift]_vars

----------------------------------------------------------------------------
(* monteCarloIntegrator.step and metropolisMonteCarloIntegrator.step          *)
(* (self.verbose is off: the printing branch is not modelled)                *)

\* the ranges from which randint can draw
StepRanges ==
    {r \in SpaceRanges :
        r = NoRange \/ TruncDiv(Min2(r[1], r[2]), resolution) < TruncDiv(Max2(r[1], r[2]), resolution)}

\* the sampler configurations the step specifications start from: those whose
\* shift can be drawn (SpecShift covers the ranges randint refuses)
StepSamplers(cls, limitsM, limitsC) ==
    {NewSampler(cls, r, MaxStepSize + 1, m, f, lm, lc) :
        r \in StepRanges, m \in {PyNone, Num(1)},
        f \in {PyNone} \cup {Num(x) : x \in StepSizes},
        lm \in limitsM, lc \in limitsC}

StepSystems == {NewSystem(p, x, 0, FALSE) : p \in PlainPotentials, x \in Positions}

CountUp(n) == IF n <= MaxIter THEN n + 1 ELSE n

\* step, up to the loop: current_state = system.current_state; self.oldpos = its position
StepEnter(cls, loop) ==
    /\ pc = "idle"
    /\ sampler.cls = cls
    /\ sampler' = [sampler EXCEPT !.oldpos = Num(system.current_state.position)]
    /\ frame' = [IdleFrame EXCEPT !.current_state = system.current_state,
                                  !.nDimensions = system.nDimensions,
                                  !.entry = system]
    /\ pc' = loop
    /\ ret' = NoResult
    /\ UNCHANGED <<langevin, system, warnings, calls, eds, heap>>

MC_StepEnter == StepEnter("monteCarloIntegrator", "mc_while")

\* one pass of monteCarloIntegrator.step's while (True), the return included
\* when the pass breaks
MC_Draw ==
    /\ pc = "mc_while"
    /\ IF RandomShiftRaises(sampler)
       THEN /\ ret' = Raised("ValueError: low >= high")
            /\ pc' = "idle"
            /\ frame' = [frame EXCEPT !.exit = "raise"]
            /\ UNCHANGED sampler
       ELSE \E sign \in Signs(frame.nDimensions), draw \in Draws(sampler, frame.nDimensions) :
              LET shift == random_shift(sampler, frame.nDimensions, sign, draw)
                  newPos == sampler.oldpos.v + shift[1]
              IN  /\ sampler' = [sampler EXCEPT !.posShift = shift, !.newPos = Num(newPos)]
                  /\ IF critInSpaceRange(sampler, newPos)
                     THEN /\ frame' = [frame EXCEPT !.proposals = CountUp(@),
                                                    !.verdict = "accept", !.exit = "break"]
                          /\ ret' = Returned(<<Num(newPos), NaN, Num(shift[1])>>)
                          /\ pc' = "idle"
                     ELSE /\ frame' = [frame EXCEPT !.proposals = CountUp(@),
                                                    !.verdict = "reject"]
                          /\ UNCHANGED <<ret, pc>>
    /\ UNCHANGED <<langevin, system, warnings, calls, eds, heap>>

\* the plain Monte Carlo samplers: those whose shift can be drawn and those
\* with the range <<1, 1>>, on which randint cannot draw
MCSamplers ==
    StepSamplers("monteCarloIntegrator", {Inf}, {Inf})
      \cup {NewSampler("monteCarloIntegrator", <<1, 1>>, MaxStepSize + 1, m, f, Inf, Inf) :
               m \in {PyNone, Num(1)}, f \in {PyNone} \cup {Num(x) : x \in StepSizes}}

InitMC ==
    /\ sampler \in MCSamplers
    /\ langevin = NoLangevin
    /\ system \in StepSystems
    /\ pc = "idle"
    /\ frame = IdleFrame
    /\ ret = NoResult
    /\ warnings = <<>>
    /\ calls = 0
    /\ eds = NoObjects
    /\ heap = NoObjects

NextMC == MC_StepEnter \/ MC_Draw

SpecMC == InitMC /\ [][NextMC]_vars

----------------------------------------------------------------------------
(* metropolisMonteCarloIntegrator.step *)

\* _default_randomness: _randomness_factor * rand() <= exp(-(ene_new - E) / (R T / 1000)).
\* The exponential is not computed: passes is the outcome of the comparison,
\* which the draw of rand() decides either way for a candidate that is not lower
default_randomness(ene_new, current_state, passes) == passes

\* metropolis_criterion with the energy comparison turned around
metropolis_criterion_flipped(ene_new, current_state, passes) ==
    \/ ene_new > current_state.total_potential_energy
    \/ default_randomness(ene_new, current_state, passes)

\* metropolis_criterion
metropolis_criterion(ene_new, current_state, passes) ==
    \/ ene_new < current_state.total_potential_energy
    \/ default_randomness(ene_new, current_state, passes)

\* the condition of step's while
MMC_LoopCondition(self, current_iteration) ==
    /\ LeqLim(current_iteration, self.convergence_limit)
    /\ LeqLim(current_iteration, self.maxIterationTillAccept)

\* the break condition forcing acceptance one pass late
MMC_Accepts_Late(self, current_iteration, position, new_ene, current_state, passes) ==
    \/ self.maxIterationTillAccept.tag = "num" /\ self.maxIterationTillAccept.v < current_iteration
    \/ /\ critInSpaceRange(self, position)
       /\ metropolis_criterion(new_ene, current_state, passes)

\* the break condition without the forced acceptance
MMC_Accepts_Unforced(self, current_iteration, position, new_ene, current_state, passes) ==
    /\ critInSpaceRange(self, position)
    /\ metropolis_criterion(new_ene, current_state, passes)

\* the condition under which a pass breaks
MMC_Accepts(self, current_iteration, position, new_ene, current_state, passes) ==
    \/ LimLeq(self.maxIterationTillAccept, current_iteration)
    \/ /\ critInSpaceRange(self, position)
       /\ metropolis_criterion(new_ene, current_state, passes)

\* the raise condition with > for >=
MMC_NotConverged_Strict(self, current_iteration) ==
    self.convergence_limit.tag = "num" /\ current_iteration > self.convergence_limit.v

\* the condition of the raise, tested after current_iteration += 1
MMC_NotConverged(self, current_iteration) ==
    GeqLim(current_iteration, self.convergence_limit)

NonConvergence == "ValueError: Metropolis-MonteCarlo samplers did not converge!"

MMC_StepEnter == StepEnter("metropolisMonteCarloIntegrator", "mmc_while")

\* one pass of the while loop: propose, write the candidate into the system,
\* evaluate, then break, or count the rejection and possibly raise
MMC_Iterate ==
    /\ pc = "mmc_while"
    /\ MMC_LoopCondition(sampler, frame.current_iteration)
    /\ frame.current_iteration < MaxIter
    /\ IF RandomShiftRaises(sampler)
       THEN /\ ret' = Raised("ValueError: low >= high")
            /\ pc' = "idle"
            /\ frame' = [frame EXCEPT !.exit = "raise"]
            /\ UNCHANGED <<sampler, system>>
       ELSE \E sign \in Signs(frame.nDimensions), draw \in Draws(sampler, frame.nDimensions),
               passes \in BOOLEAN :
              LET shift == random_shift(sampler, frame.nDimensions, sign, draw)
                  position == sampler.oldpos.v + shift[1]
                  new_ene == ene(system.potential, position)
                  rejected == frame.current_iteration + 1
              IN  /\ sampler' = [sampler EXCEPT !.posShift = shift]
                  /\ system' = [system EXCEPT !._currentPosition = position,
                                              !._currentForce = shift[1]]
                  /\ IF MMC_Accepts(sampler, frame.current_iteration, position, new_ene,
                                    frame.current_state, passes)
                     THEN /\ frame' = [frame EXCEPT !.new_ene = Num(new_ene),
                                                    !.proposals = CountUp(@),
                                                    !.verdict = "accept", !.exit = "break"]
                          /\ pc' = "mmc_after"
                          /\ UNCHANGED ret
                     ELSE IF MMC_NotConverged(sampler, rejected)
                     THEN /\ frame' = [frame EXCEPT !.new_ene = Num(new_ene),
                                                    !.proposals = CountUp(@),
                                                    !.current_iteration = rejected,
                                                    !.verdict = "reject", !.exit = "raise"]
                          /\ ret' = Raised(NonConvergence)
                          /\ pc' = "idle"
                     ELSE /\ frame' = [frame EXCEPT !.new_ene = Num(new_ene),
                                                    !.proposals = CountUp(@),
                                                    !.current_iteration = rejected,
                                                    !.verdict = "reject"]
                          /\ UNCHANGED <<ret, pc>>
    /\ UNCHANGED <<langevin, warnings, calls, eds, heap>>

\* the while condition found false
MMC_LoopEnd ==
    /\ pc = "mmc_while"
    /\ ~MMC_LoopCondition(sampler, frame.current_iteration)
    /\ frame' = [frame EXCEPT !.exit = "cond"]
    /\ pc' = "mmc_after"
    /\ UNCHANGED <<sampler, langevin, system, ret, warnings, calls, eds, heap>>

\* after the loop: self.newPos = self.oldpos; return
MMC_Return ==
    /\ pc = "mmc_after"
    /\ sampler' = [sampler EXCEPT !.newPos = sampler.oldpos]
    /\ ret' = Returned(<<Num(system._currentPosition), NaN, Num(sampler.posShift[1])>>)
    /\ pc' = "idle"
    /\ UNCHANGED <<langevin, system, frame, warnings, calls, eds, heap>>

InitMMC ==
    /\ sampler \in StepSamplers("metropolisMonteCarloIntegrator", Limits, Limits)
    /\ langevin = NoLangevin
    /\ system \in StepSystems
    /\ pc = "idle"
    /\ frame = IdleFrame
    /\ ret = NoResult
    /\ warnings = <<>>
    /\ calls = 0
    /\ eds = NoObjects
    /\ heap = NoObjects

NextMMC == MMC_StepEnter \/ MMC_Iterate \/ MMC_LoopEnd \/ MMC_Return

SpecMMC == InitMMC /\ [][NextMMC]_vars

----------------------------------------------------------------------------
(* Claims about metropolisMonteCarloIntegrator.step, under SpecMMC *)

StepStartEnergy == frame.current_state.total_potential_energy
StepStartPosition == frame.current_state.position
CandidateLower == IsNum(frame.new_ene) /\ frame.new_ene.v < StepStartEnergy
CandidateInRange ==
    \/ sampler.spaceRange = NoRange
    \/ /\ system._currentPosition >= RangeMin(sampler)
       /\ system._currentPosition <= RangeMax(sampler)
EmitsCandidate ==
    (ret.kind = "return" /\ frame.exit = "break") =>
        /\ ret.value[1] = Num(StepStartPosition + sampler.posShift[1])
        /\ ene(system.potential, ret.value[1].v) = frame.new_ene.v

\* C1 as stated: a candidate whose energy is strictly lower than the step-start
\* total potential energy is never rejected, whatever the sampler's settings,
\* and the step emits it.
C1_LowerEnergyAlwaysAccepted ==
    /\ (frame.verdict = "reject" => ~CandidateLower)
    /\ EmitsCandidate

\* C1 amended: a candidate whose energy is strictly lower than the step-start
\* total potential energy and whose position satisfies spaceRange (or spaceRange
\* is unset) is never rejected, and the step emits it on that proposal.
C1_LowerEnergyAcceptedInRange ==
    /\ (frame.verdict = "reject" /\ CandidateInRange => ~CandidateLower)
    /\ EmitsCandidate

C1_Witness ==
    /\ ret.kind = "return"
    /\ frame.exit = "break"
    /\ CandidateLower
    /\ sampler.spaceRange # NoRange
    /\ sampler.maxIterationTillAccept = Inf
    /\ frame.proposals >= 2

ConvergenceOnly ==
    /\ sampler.cls = "metropolisMonteCarloIntegrator"
    /\ sampler.maxIterationTillAccept = Inf
    /\ sampler.convergence_limit.tag = "num"
    /\ sampler.convergence_limit.v >= 0

\* C2 as stated: with maxIterationTillAccept infinite and a finite
\* convergence_limit L >= 0, the non-convergence error has been raised exactly
\* when the step's rejection count exceeds L.
C2_RaisedWhenExceeded ==
    ConvergenceOnly =>
        (ret.exc = NonConvergence <=> frame.current_iteration > sampler.convergence_limit.v)

\* C2 amended: with maxIterationTillAccept infinite and a finite
\* convergence_limit L >= 0, the non-convergence error has been raised exactly
\* when the step's rejection count has reached L (one, for L = 0): never below,
\* and the count never passes it.
C2_RaisedWhenReached ==
    ConvergenceOnly =>
        /\ ret.exc = NonConvergence <=>
             frame.current_iteration >= Max2(sampler.convergence_limit.v, 1)
        /\ frame.current_iteration <= Max2(sampler.convergence_limit.v, 1)

C2_Witness ==
    /\ ConvergenceOnly
    /\ sampler.convergence_limit.v = 2
    /\ ret.exc = NonConvergence
    /\ frame.current_iteration = 2

NonNegative(lim) == lim = Inf \/ lim.v >= 0
MinLimit ==
    IF sampler.convergence_limit = Inf THEN sampler.maxIterationTillAccept.v
    ELSE IF sampler.maxIterationTillAccept = Inf THEN sampler.convergence_limit.v
    ELSE Min2(sampler.convergence_limit.v, sampler.maxIterationTillAccept.v)
SomeLimit ==
    /\ sampler.cls = "metropolisMonteCarloIntegrator"
    /\ NonNegative(sampler.convergence_limit)
    /\ NonNegative(sampler.maxIterationTillAccept)
    /\ (sampler.convergence_limit # Inf \/ sampler.maxIterationTillAccept # Inf)

ForcedFirst ==
    /\ sampler.cls = "metropolisMonteCarloIntegrator"
    /\ sampler.maxIterationTillAccept.tag = "num"
    /\ sampler.maxIterationTillAccept.v >= 0
    /\ \/ sampler.convergence_limit = Inf
       \/ sampler.maxIterationTillAccept.v < sampler.convergence_limit.v

IsMMC == sampler.cls = "metropolisMonteCarloIntegrator"

\* C24: with spaceRange set, every position that
\* metropolisMonteCarloIntegrator.step returns lies in
\* [min(spaceRange), max(spaceRange)], whatever maxIterationTillAccept and
\* convergence_limit are and whatever is drawn.
C24_ReturnedPositionInRange ==
    (IsMMC /\ sampler.spaceRange # NoRange /\ ret.kind = "return") =>
        /\ ret.value[1].v >= RangeMin(sampler)
        /\ ret.value[1].v <= RangeMax(sampler)

\* C25: when metropolisMonteCarloIntegrator.step raises the non-convergence
\* error, the system's _currentPosition and _currentForce hold what they held
\* when the step began, and _currentPosition is the position of currentState.
C25_SystemRestoredOnError ==
    (IsMMC /\ ret.kind = "raise" /\ ret.exc = NonConvergence) =>
        /\ system._currentPosition = frame.entry._currentPosition
        /\ system._currentForce = frame.entry._currentForce
        /\ system._currentPosition = system.current_state.position

----------------------------------------------------------------------------
(* Claim about monteCarloIntegrator.step, under SpecMC *)

\* C7: with spaceRange set, a position that monteCarloIntegrator.step returns
\* lies in [min(spaceRange), max(spaceRange)] and is the step-start position
\* plus the returned shift; a drawn shift is discarded only when its position is
\* outside the range; and the step leaves the system as it found it.
C7_ReturnedPositionInRange ==
    (sampler.cls = "monteCarloIntegrator" /\ sampler.spaceRange # NoRange) =>
        /\ (ret.kind = "return" =>
              /\ ret.value[1].v >= RangeMin(sampler)
              /\ ret.value[1].v <= RangeMax(sampler)
              /\ ret.value[1].v = StepStartPosition + ret.value[3].v
              /\ ret.value[3].v = sampler.posShift[1])
        /\ (frame.verdict = "reject" =>
              \/ sampler.newPos.v < RangeMin(sampler)
              \/ sampler.newPos.v > RangeMax(sampler))
        /\ (pc # "idle" \/ ret.kind # "none" => system = frame.entry)

C7_Witness ==
    /\ sampler.cls = "monteCarloIntegrator"
    /\ sampler.spaceRange # NoRange
    /\ ret.kind = "return"
    /\ frame.proposals >= 2
    /\ ret.value[3].v # 0

IsMC == sampler.cls = "monteCarloIntegrator"

\* the shifts random_shift can give in the first dimension
ProducibleShifts ==
    {random_shift(sampler, system.nDimensions, sign, draw)[1] :
        sign \in Signs(system.nDimensions), draw \in Draws(sampler, system.nDimensions)}

InRange(pos) == pos >= RangeMin(sampler) /\ pos <= RangeMax(sampler)

\* no shift the step-size policy can produce puts the step-start position
\* plus shift inside spaceRange
NoShiftInRange ==
    /\ sampler.spaceRange # NoRange
    /\ \A s \in ProducibleShifts : ~InRange(StepStartPosition + s)

\* what C21 says of the draws up to a return
ReturnsOnFirstFit ==
    /\ sampler.spaceRange = NoRange =>
          /\ pc = "mc_while" => frame.proposals = 0
          /\ ret.kind = "return" => frame.proposals = 1
    /\ sampler.spaceRange # NoRange =>
          /\ pc = "mc_while" /\ frame.proposals > 0 =>
                /\ frame.verdict = "reject"
                /\ ~InRange(sampler.newPos.v)
          /\ ret.kind = "return" =>
                /\ frame.verdict = "accept"
                /\ InRange(ret.value[1].v)

----------------------------------------------------------------------------
(* Claim about stochasticSampler.random_shift, under SpecShift *)

ShiftReturned == sampler.cls = "stochasticSampler" /\ ret.kind = "return"
Dims == 1..frame.nDimensions
FixedSet == sampler.fixedStepSize # PyNone
RangeSet == sampler.spaceRange # NoRange
\* component i was raised to the minimal step size
Clamped(i) == sampler.minStepSize # PyNone /\ Abs(sampler.posShift[i]) = sampler.minStepSize.v
\* component i is a ranged draw: |k| * resolution, k one of randint's integers
IsRangedDraw(i) ==
    \E k \in TruncDiv(RangeMin(sampler), resolution)..(TruncDiv(RangeMax(sampler), resolution) - 1) :
        Abs(sampler.posShift[i]) = Abs(k) * resolution
\* component i is a coefficient-scaled draw: below step_size_coefficient
IsScaledDraw(i) == Abs(sampler.posShift[i]) < sampler.step_size_coefficient

\* C8 as stated: with fixedStepSize set every component has magnitude
\* fixedStepSize whatever else is set; without it and with spaceRange every
\* component is a ranged draw; with neither, a coefficient-scaled one; and no
\* call raises.
C8_PrecedenceExact ==
    sampler.cls = "stochasticSampler" =>
        /\ ret.kind # "raise"
        /\ ShiftReturned =>
             \A i \in Dims :
                 /\ FixedSet => Abs(sampler.posShift[i]) = Abs(sampler.fixedStepSize.v)
                 /\ (~FixedSet /\ RangeSet) => IsRangedDraw(i)
                 /\ (~FixedSet /\ ~RangeSet) => IsScaledDraw(i)

\* C8 amended: the same precedence, where (a) a component that the minimal step
\* size test replaces has magnitude minStepSize instead (with fixedStepSize set:
\* when minStepSize is set and larger than fixedStepSize), and (b) the one error
\* is the ValueError of the ranged draw, raised exactly when fixedStepSize is
\* None, spaceRange is set and int(min / resolution) >= int(max / resolution).
C8_PrecedenceUpToMinStep ==
    sampler.cls = "stochasticSampler" =>
        /\ ret.kind = "raise" =>
             /\ ~FixedSet
             /\ RangeSet
             /\ TruncDiv(RangeMin(sampler), resolution) >= TruncDiv(RangeMax(sampler), resolution)
        /\ (ShiftReturned /\ ~FixedSet /\ RangeSet) =>
             TruncDiv(RangeMin(sampler), resolution) < TruncDiv(RangeMax(sampler), resolution)
        /\ ShiftReturned =>
             \A i \in Dims :
                 /\ FixedSet =>
                      Abs(sampler.posShift[i]) =
                          IF sampler.minStepSize # PyNone
                             /\ sampler.fixedStepSize.v < sampler.minStepSize.v
                          THEN sampler.minStepSize.v
                          ELSE Abs(sampler.fixedStepSize.v)
                 /\ (~FixedSet /\ RangeSet) => (IsRangedDraw(i) \/ Clamped(i))
                 /\ (~FixedSet /\ ~RangeSet) => (IsScaledDraw(i) \/ Clamped(i))

C8_Witness ==
    /\ ShiftReturned
    /\ FixedSet
    /\ RangeSet
    /\ sampler.spaceRange = <<1, 1>>
    /\ frame.nDimensions = 2
    /\ sampler.posShift[1] # sampler.posShift[2]

\* the magnitude of component i before the minimal step size is applied
RawMagnitude(i) == ShiftMagnitude(sampler, frame.drawn.draw[i])

\* C23: with minStepSize set, every component of the shift that random_shift
\* returns has absolute value at least minStepSize under each step-size
\* policy and every draw: a component whose magnitude is below the minimum is
\* the minimum with the drawn sign, every other one keeps its magnitude.
C23_MinimalStepSize ==
    (ShiftReturned /\ sampler.minStepSize # PyNone) =>
        \A i \in Dims :
            /\ Abs(sampler.posShift[i]) >= sampler.minStepSize.v
            /\ ret.value[i] = Num(sampler.posShift[i])
            /\ RawMagnitude(i) < sampler.minStepSize.v =>
                  sampler.posShift[i] = frame.drawn.sign[i] * sampler.minStepSize.v
            /\ RawMagnitude(i) >= sampler.minStepSize.v =>
                  sampler.posShift[i] = frame.drawn.sign[i] * RawMagnitude(i)

C23_Witness ==
    /\ ShiftReturned
    /\ sampler.minStepSize # PyNone
    /\ frame.nDimensions = 2
    /\ ShiftPolicy(sampler) = "ranged"
    /\ RawMagnitude(1) < sampler.minStepSize.v
    /\ RawMagnitude(2) > sampler.minStepSize.v
    /\ sampler.posShift[1] = -sampler.minStepSize.v

----------------------------------------------------------------------------
(* langevinIntegrator and langevinVelocityIntegrator                         *)
(* (self.verbose is off: the printing branch is not modelled)                *)

\* langevinIntegrator.__init__, for either class
NewLangevin(cls, dt, gamma, old_position) ==
    [cls |-> cls,
     dt |-> dt,
     gamma |-> gamma,
     _oldPosition |-> old_position,
     _first_step |-> TRUE,
     R_x |-> PyNone,
     newForces |-> PyNone,
     currentPosition |-> PyNone,
     currentVelocity |-> PyNone]

\* np.sqrt(2 * system.temperature * self.gamma * system.mass / self.dt)
FluctuationScale(self, sys) ==
    ISqrt(TruncDiv(2 * sys.temperature * self.gamma * sys.mass, self.dt))

\* self.gamma * self.dt / 2
HalfFriction(self) == TruncDiv(self.gamma * self.dt, 2)

\* langevinIntegrator.update_positon returning what the velocity variant returns
update_positon_position_pair(self, sys, curr_random) ==
    [self |-> self, result |-> <<Num(self.currentPosition.v), Num(self.currentVelocity.v)>>,
     evaluated |-> <<>>, used |-> [newForces |-> PyNone, R_x |-> PyNone]]

\* langevinIntegrator.update_positon: the object after the call and the tuple
\* it returns, for the drawn curr_random; evaluated lists the positions at which
\* potential.force was called, used the force and the scaled draw that entered
\* the first half step of the velocity variant
update_positon_position(self, sys, curr_random) ==
    LET R_x == FluctuationScale(self, sys) * curr_random
        newForces == -force(sys.potential, self.currentPosition.v)
        new_position ==
            TruncDiv(2 * self.currentPosition.v - self._oldPosition.v
                         + HalfFriction(self) * self._oldPosition.v
                         + TruncDiv(self.dt * self.dt, sys.mass) * (R_x + newForces),
                     1 + HalfFriction(self))
    IN  [self |-> [self EXCEPT !.R_x = Num(R_x), !.newForces = Num(newForces)],
         result |-> <<Num(new_position), PyNone, Num(curr_random)>>,
         evaluated |-> <<self.currentPosition.v>>,
         used |-> [newForces |-> PyNone, R_x |-> PyNone]]

\* langevinVelocityIntegrator.update_positon that never clears _first_step
update_positon_velocity_keeps_first(self, sys, first_random, curr_random) ==
    LET first == IF self._first_step
                 THEN [self EXCEPT !.R_x = Num(FluctuationScale(self, sys) * first_random),
                                   !.newForces = Num(-force(sys.potential, self.currentPosition.v))]
                 ELSE self
        half_step_velocity ==
            (1 - HalfFriction(self)) * self.currentVelocity.v
                + TruncDiv(self.dt * (first.newForces.v + first.R_x.v), 2 * sys.mass)
        full_step_position == self.currentPosition.v + half_step_velocity * self.dt
        R_x == FluctuationScale(self, sys) * curr_random
        newForces == -force(sys.potential, full_step_position)
        full_step_velocity ==
            TruncDiv(half_step_velocity + TruncDiv(self.dt * (newForces + R_x), sys.mass),
                     1 + HalfFriction(self))
    IN  [self |-> [first EXCEPT !.R_x = Num(R_x), !.newForces = Num(newForces)],
         result |-> <<Num(full_step_position), Num(full_step_velocity)>>,
         evaluated |-> IF self._first_step
                       THEN <<self.currentPosition.v, full_step_position>>
                       ELSE <<full_step_position>>,
         used |-> [newForces |-> first.newForces, R_x |-> first.R_x]]

\* langevinVelocityIntegrator.update_positon: first_random is drawn only while
\* _first_step is set
update_positon_velocity(self, sys, first_random, curr_random) ==
    LET first == IF self._first_step
                 THEN [self EXCEPT !.R_x = Num(FluctuationScale(self, sys) * first_random),
                                   !.newForces = Num(-force(sys.potential, self.currentPosition.v)),
                                   !._first_step = FALSE]
                 ELSE self
        half_step_velocity ==
            (1 - HalfFriction(self)) * self.currentVelocity.v
                + TruncDiv(self.dt * (first.newForces.v + first.R_x.v), 2 * sys.mass)
        full_step_position == self.currentPosition.v + half_step_velocity * self.dt
        R_x == FluctuationScale(self, sys) * curr_random
        newForces == -force(sys.potential, full_step_position)
        full_step_velocity ==
            TruncDiv(half_step_velocity + TruncDiv(self.dt * (newForces + R_x), sys.mass),
                     1 + HalfFriction(self))
    IN  [self |-> [first EXCEPT !.R_x = Num(R_x), !.newForces = Num(newForces)],
         result |-> <<Num(full_step_position), Num(full_step_velocity)>>,
         evaluated |-> IF self._first_step
                       THEN <<self.currentPosition.v, full_step_position>>
                       ELSE <<full_step_position>>,
         used |-> [newForces |-> first.newForces, R_x |-> first.R_x]]

\* self.update_positon(system), by the class of self
update_positon(self, sys, first_random, curr_random) ==
    IF self.cls = "langevinVelocityIntegrator"
    THEN update_positon_velocity(self, sys, first_random, curr_random)
    ELSE update_positon_position(self, sys, curr_random)

\* the test of line 404 finding an old position missing on every call
Bootstraps_always(self) == TRUE

\* step, line 404: the old position is to be got from the velocity
Bootstraps(self) == self._oldPosition = PyNone

\* step, lines 399-414: read the system, settle self._oldPosition
ReadSystem(self, sys) ==
    LET read == [self EXCEPT !.currentPosition = Num(sys._currentPosition),
                             !.currentVelocity = Num(sys._currentVelocities)]
    IN  IF Bootstraps(self)
        THEN [read EXCEPT !._oldPosition =
                  Num(sys._currentPosition - sys._currentVelocities * self.dt)]
        ELSE read

MissingOrigPotential ==
    "You did not select an enhanced sampling potential."

\* the unbiased force reported as zero when there is no origPotential
unbiased_force_zero(sys, position) ==
    IF sys.potential.origPotential # NoOrigPotential
    THEN [orig_force |-> Num(-force(sys.potential.origPotential[1], position)),
          warned |-> <<>>]
    ELSE [orig_force |-> Num(0), warned |-> <<MissingOrigPotential>>]

\* step, lines 424-431: the force of the unbiased system, or the warning and
\* None when the potential has no origPotential (AttributeError)
unbiased_force(sys, position) ==
    IF sys.potential.origPotential # NoOrigPotential
    THEN [orig_force |-> Num(-force(sys.potential.origPotential[1], position)),
          warned |-> <<>>]
    ELSE [orig_force |-> PyNone, warned |-> <<MissingOrigPotential>>]

\* the tuple returned whatever system.reweighting is
step_result_short(sys, new_position, new_velocity, newForces, curr_random, orig_force) ==
    <<new_position, new_velocity, newForces>>

\* step, lines 447-450: the tuple returned
step_result(sys, new_position, new_velocity, newForces, curr_random, orig_force) ==
    IF sys.reweighting
    THEN <<new_position, new_velocity, newForces, curr_random, orig_force>>
    ELSE <<new_position, new_velocity, newForces>>

\* langevinIntegrator.step, inherited by langevinVelocityIntegrator: the whole
\* call.  The result of update_positon is unpacked into three names, which
\* raises ValueError for a tuple of another length; what update_positon wrote
\* into self by then stays.
Langevin_Step ==
    /\ pc = "idle"
    /\ langevin.cls # "none"
    /\ calls < MaxCalls
    /\ \E first_random \in (-MaxNormal)..MaxNormal, curr_random \in (-MaxNormal)..MaxNormal :
         LET read == ReadSystem(langevin, system)
             upd == update_positon(read, system, first_random, curr_random)
             orig == unbiased_force(system, read.currentPosition.v)
             done == [read |-> read.currentPosition,
                      old |-> read._oldPosition,
                      bootstrapped |-> Bootstraps(langevin),
                      first_step |-> langevin._first_step,
                      evaluated |-> upd.evaluated,
                      used |-> upd.used,
                      left |-> [newForces |-> upd.self.newForces, R_x |-> upd.self.R_x],
                      position |-> upd.result[1]]
         IN  /\ frame' = [IdleFrame EXCEPT !.nDimensions = system.nDimensions,
                                           !.entry = system,
                                           !.curr_random = Num(curr_random),
                                           !.old_position = frame.old_position,
                                           !.history = Append(frame.history, done)]
             /\ IF Len(upd.result) # 3
                THEN /\ langevin' = upd.self
                     /\ ret' = Raised("ValueError: not enough values to unpack (expected 3, got 2)")
                     /\ warnings' = <<>>
                ELSE /\ langevin' = [upd.self EXCEPT !._oldPosition = read.currentPosition]
                     /\ warnings' = IF system.reweighting THEN orig.warned ELSE <<>>
                     /\ ret' = Returned(step_result(system, upd.result[1], upd.result[2],
                                                    upd.self.newForces, upd.result[3],
                                                    orig.orig_force))
    /\ calls' = calls + 1
    /\ UNCHANGED <<sampler, system, pc, eds, heap>>

\* system.set_current_state between two steps: the caller hands the system the
\* position that the sampler's step returned and the velocity the system has
System_set_current_state ==
    /\ pc = "idle"
    /\ langevin.cls # "none"
    /\ ret.kind = "return"
    /\ system._currentPosition # ret.value[1].v
    /\ system' = [system EXCEPT !._currentPosition = ret.value[1].v]
    /\ UNCHANGED <<sampler, langevin, pc, frame, ret, warnings, calls, eds, heap>>

LangevinSystems ==
    {NewSystem(p, x, v, w) : p \in Potentials, x \in Positions, v \in (-1)..1, w \in BOOLEAN}

InitLangevin ==
    /\ sampler = NoSampler
    /\ langevin \in {NewLangevin(c, 2, g, o) :
                       c \in {"langevinIntegrator", "langevinVelocityIntegrator"},
                       g \in {0, 1},
                       o \in {PyNone, Num(0), Num(1)}}
    /\ system \in LangevinSystems
    /\ pc = "idle"
    /\ frame = [IdleFrame EXCEPT !.old_position = langevin._oldPosition]
    /\ ret = NoResult
    /\ warnings = <<>>
    /\ calls = 0
    /\ eds = NoObjects
    /\ heap = NoObjects

NextLangevin == Langevin_Step \/ System_set_current_state

SpecLangevin == InitLangevin /\ [][NextLangevin]_vars

----------------------------------------------------------------------------
(* Claims about the Langevin samplers' step, under SpecLangevin *)

IsPosition == langevin.cls = "langevinIntegrator"
IsVelocity == langevin.cls = "langevinVelocityIntegrator"
Called == calls > 0

\* C5: every call of langevinVelocityIntegrator.step completes without error
\* and returns a tuple that starts with the full-step position and the
\* full-step velocity, both numbers.
C5_VelocityStepReturns ==
    (IsVelocity /\ Called) =>
        /\ ret.kind = "return"
        /\ Len(ret.value) >= 2
        /\ IsNum(ret.value[1])
        /\ IsNum(ret.value[2])

\* C6 as stated: every call of the position Langevin step returns a new
\* position, a number, and reports the velocity as not-a-number.
C6_VelocityIsNaN ==
    (IsPosition /\ Called) =>
        /\ ret.kind = "return"
        /\ IsNum(ret.value[1])
        /\ ret.value[2] = NaN

\* C6 amended: every call of the position Langevin step returns a new
\* position, a number, and reports the velocity as None.
C6_VelocityIsNone ==
    (IsPosition /\ Called) =>
        /\ ret.kind = "return"
        /\ IsNum(ret.value[1])
        /\ ret.value[2] = PyNone

C6_Witness ==
    /\ IsPosition
    /\ calls = 2
    /\ ret.kind = "return"
    /\ ret.value[1] # Num(system._currentPosition)

\* C9: a tuple returned by langevinIntegrator.step has five elements
\* (position, velocity, force, random draw, unbiased force) exactly when
\* system.reweighting is true and three (position, velocity, force) exactly
\* when it is false.
C9_ArityFollowsReweighting ==
    (langevin.cls # "none" /\ ret.kind = "return") =>
        /\ Len(ret.value) \in {3, 5}
        /\ Len(ret.value) = 5 <=> system.reweighting
        /\ Len(ret.value) = 3 <=> ~system.reweighting
        /\ ret.value[3] = langevin.newForces
        /\ system.reweighting => ret.value[4] = frame.curr_random

C9_Witness ==
    /\ IsPosition
    /\ ret.kind = "return"
    /\ system.reweighting
    /\ Len(ret.value) = 5
    /\ IsNum(ret.value[5])

NoReference ==
    /\ IsPosition
    /\ Called
    /\ system.reweighting
    /\ system.potential.origPotential = NoOrigPotential

\* C10: with system.reweighting true and a potential without origPotential,
\* langevinIntegrator.step does not fail: it warns, returns the new position,
\* the velocity, the force and the random draw, and reports the unbiased force
\* as None.
C10_MissingReferenceIsSoft ==
    NoReference =>
        /\ ret.kind = "return"
        /\ warnings = <<MissingOrigPotential>>
        /\ Len(ret.value) = 5
        /\ IsNum(ret.value[1])
        /\ ret.value[3] = langevin.newForces
        /\ ret.value[4] = frame.curr_random
        /\ ret.value[5] = PyNone

C10_Witness ==
    /\ NoReference
    /\ ret.kind = "return"
    /\ warnings # <<>>
    /\ ret.value[5] = PyNone
    /\ ret.value[4] # Num(0)

Steps == 1..Len(frame.history)

\* C19: step n of a langevinIntegrator works with this previous position: at
\* n = 1 the old_position given at construction or, when none was given, the
\* current position minus velocity times dt; at n > 1 the system position the
\* sampler read at the start of step n - 1.  The old position is got from the
\* velocity in at most one step and in none when old_position was given.
C19_PreviousPosition ==
    IsPosition =>
        /\ \A n \in Steps :
              frame.history[n].old =
                  IF n > 1 THEN frame.history[n - 1].read
                  ELSE IF frame.old_position # PyNone THEN frame.old_position
                  ELSE Num(frame.history[1].read.v - system._currentVelocities * langevin.dt)
        /\ Cardinality({n \in Steps : frame.history[n].bootstrapped}) <= 1
        /\ frame.old_position # PyNone => \A n \in Steps : ~frame.history[n].bootstrapped

C19_Witness ==
    /\ IsPosition
    /\ Len(frame.history) = 2
    /\ frame.old_position = PyNone
    /\ frame.history[1].bootstrapped
    /\ system._currentVelocities # 0
    /\ frame.history[2].read # frame.history[1].read
    /\ frame.history[2].old = frame.history[1].read

\* C20: a langevinVelocityIntegrator finds _first_step set in its first update
\* only, where it evaluates the force at the position it read and then at the
\* full-step position; every later update evaluates the force once, at its
\* full-step position, and enters its first half step with the force and the
\* scaled random draw that the update before it left.
C20_ForceCarriedOver ==
    IsVelocity =>
        /\ Called => ~langevin._first_step
        /\ \A n \in Steps :
              LET done == frame.history[n]
              IN  /\ done.first_step <=> n = 1
                  /\ Len(done.evaluated) = IF n = 1 THEN 2 ELSE 1
                  /\ done.evaluated[Len(done.evaluated)] = done.position.v
                  /\ done.left.newForces = Num(-force(system.potential, done.position.v))
                  /\ n = 1 => /\ done.evaluated[1] = done.read.v
                              /\ done.used.newForces =
                                     Num(-force(system.potential, done.read.v))
                  /\ n > 1 => done.used = frame.history[n - 1].left

C20_Witness ==
    /\ IsVelocity
    /\ Len(frame.history) = 2
    /\ frame.history[2].used.newForces #
           Num(-force(system.potential, frame.history[2].read.v))
    /\ frame.history[2].used.R_x # Num(0)
    /\ frame.history[2].evaluated = <<frame.history[2].position.v>>

----------------------------------------------------------------------------
(* edsSystem (src/ensembler/system/eds_system.py)                            *)
(*                                                                           *)
(* Two names, 1 and 2, may each come to hold an edsSystem, built either with *)
(* the default potential and sampler or with objects of its own, at the      *)
(* start position 0 and with the default offsets [0, 0].  An instance        *)
(* refers to its potential and its sampler by the identity of the object:    *)
(* heap maps an identity to the object's attributes, so that two instances   *)
(* holding the same identity hold the same object.  The identities           *)
(* <<"potential", 0>> and <<"sampler", 0>> are the objects that the default  *)
(* arguments of __init__ were evaluated to when the class was defined;       *)
(* <<"potential", i>> and <<"sampler", i>> are objects that the caller made  *)
(* for instance i alone.  A world w is the pair [eds, heap]; a method is an  *)
(* operator from the world before the call to the world after it.            *)
(*                                                                           *)
(* The value of the energy evaluator is not computed: it is the term         *)
(* [s, Eoff_i, r] of the constants the evaluator was compiled from and the   *)
(* position, so that two energies are equal exactly when they were computed  *)
(* by the same evaluator at the same position.                               *)

\* s is drawn from 1..MaxS
MaxS == 2
\* the second energy offset is 0 or MaxEoff
MaxEoff == 1
\* an edsSystem specification makes at most MaxOps calls after the constructions
MaxOps == 2

\* the default of the parameter temperature
DefaultTemperature == 298

EdsIds == {1, 2}
SValues == 1..MaxS
EoffValues == {<<0, 0>>, <<0, MaxEoff>>}

\* the states a caller hands to set_current_state and append_state: position,
\* s and Eoff (the velocity and the force are the defaults, 0)
StateInputs == {<<0, 1, <<0, 0>>>>, <<MaxPos, MaxS, <<0, MaxEoff>>>>}

DefaultPotential == <<"potential", 0>>
DefaultSampler == <<"sampler", 0>>
OwnPotential(i) == <<"potential", i>>
OwnSampler(i) == <<"sampler", i>>
ObjectIds == {DefaultPotential, DefaultSampler} \cup {OwnPotential(i) : i \in EdsIds} \cup {OwnSampler(i) : i \in EdsIds}

\* pot.envelopedPotential(V_is=[harmonicOscillatorPotential(x_shift=2),
\* harmonicOscillatorPotential(x_shift=-2)], Eoff_i=[0, 0]), s being 1.0; compiled
\* holds the constants that the evaluators in use were compiled from
NewEnvelopedPotential == [cls |-> "envelopedPotential", s |-> 1, Eoff_i |-> <<0, 0>>, compiled |-> [s |-> 1, Eoff_i |-> <<0, 0>>]]

\* metropolisMonteCarloIntegrator(): no range, no fixed and no minimal step
\* size; step_size_coefficient is abstracted as in StepSamplers
NewDefaultSampler == NewSampler("metropolisMonteCarloIntegrator", NoRange, MaxStepSize + 1, PyNone, PyNone, Inf, Inf)

\* the objects that exist before any edsSystem is constructed
InitialHeap == [o \in ObjectIds |-> IF o[1] = "potential" THEN NewEnvelopedPotential ELSE NewDefaultSampler]

\* potential.ene(position) of the enveloped potential
envelopedEne(potential, position) == [s |-> potential.compiled.s, Eoff_i |-> potential.compiled.Eoff_i, r |-> position]

\* potential.set_s(s): the constant is replaced and the evaluators recompiled
potential_set_s(w, o, s) == [w EXCEPT !.heap[o].s = s, !.heap[o].compiled.s = s]

\* potential.Eoff_i = Eoff: the constants are replaced and the evaluators recompiled
potential_set_Eoff_i(w, o, Eoff) == [w EXCEPT !.heap[o].Eoff_i = Eoff, !.heap[o].compiled.Eoff_i = Eoff]

\* the name before its constructor ran
NoEds == [cls |-> "none"]

\* self.state(...): the snapshot built from the scratch fields
Snapshot(self) ==
    [position |-> self._currentPosition, temperature |-> self._currentTemperature,
     totEnergy |-> self._currentTotE, totPotEnergy |-> self._currentTotPot,
     totKinEnergy |-> self._currentTotKin, dhdpos |-> self._currentForce,
     velocity |-> self._currentVelocities, s |-> self._currentEdsS,
     Eoff |-> self._currentEdsEoffs]

\* the attributes an edsSystem has once __init__ ran past line 66; the class
\* attributes _currentEdsS and _currentEdsEoffs are np.nan until assigned
DeclaredEds(eds_s, eds_Eoff) ==
    [cls |-> "edsSystem", potential |-> DefaultPotential, sampler |-> DefaultSampler,
     _currentPosition |-> 0, _currentVelocities |-> Num(0), _currentForce |-> 0,
     _currentTemperature |-> DefaultTemperature,
     _currentTotE |-> NaN, _currentTotPot |-> NaN, _currentTotKin |-> NaN,
     _currentEdsS |-> eds_s, _currentEdsEoffs |-> eds_Eoff,
     currentState |-> NaN, trajectory |-> <<>>]

\* the kinetic energy of a velocity, not-a-number for a velocity that is
KineticEnergy(velocity) == IF IsNum(velocity) THEN Num(TruncDiv(velocity.v * velocity.v, 2)) ELSE NaN

\* system.updateSystemProperties(): the aggregate energies of the scratch fields
updateSystemProperties(w, i) ==
    LET self == w.eds[i]
        totPot == envelopedEne(w.heap[self.potential], self._currentPosition)
        totKin == KineticEnergy(self._currentVelocities)
    IN  [w EXCEPT !.eds[i]._currentTotPot = totPot,
                  !.eds[i]._currentTotKin = totKin,
                  !.eds[i]._currentTotE = [pot |-> totPot, kin |-> totKin]]

\* edsSystem.updateCurrentState()
updateCurrentState(w, i) == [w EXCEPT !.eds[i].currentState = Snapshot(w.eds[i])]

\* system.__init__: the objects are taken as given, the scratch fields are set
\* from the start position, the energies and the snapshot are computed, and the
\* trajectory starts empty
system_init(w, i, potential, smplr, temperature, start_position) ==
    LET taken == [w EXCEPT !.eds[i].potential = potential,
                           !.eds[i].sampler = smplr,
                           !.eds[i]._currentTemperature = temperature,
                           !.eds[i]._currentPosition = start_position,
                           !.eds[i]._currentVelocities = Num(0),
                           !.eds[i]._currentForce = 0,
                           !.eds[i].trajectory = <<>>]
    IN  updateCurrentState(updateSystemProperties(taken, i), i)

\* the setter of s refreshing the energies before it hands s to the potential
s_setter_refresh_first(w, i, s) ==
    LET assigned == [w EXCEPT !.eds[i]._currentEdsS = s]
    IN  potential_set_s(updateSystemProperties(assigned, i), assigned.eds[i].potential, s)

\* the setter of the property s, which set_s(s) assigns to
s_setter(w, i, s) ==
    LET assigned == [w EXCEPT !.eds[i]._currentEdsS = s]
        pushed == potential_set_s(assigned, assigned.eds[i].potential, assigned.eds[i]._currentEdsS)
    IN  updateSystemProperties(pushed, i)

\* the setter of the property Eoff, which set_Eoff(Eoff) assigns to
Eoff_setter(w, i, Eoff) ==
    LET assigned == [w EXCEPT !.eds[i]._currentEdsEoffs = Eoff]
        pushed == potential_set_Eoff_i(assigned, assigned.eds[i].potential, assigned.eds[i]._currentEdsEoffs)
    IN  updateSystemProperties(pushed, i)

\* edsSystem.__init__
edsSystem_init(w, i, potential, smplr, temperature, start_position, eds_s, eds_Eoff) ==
    LET declared == [w EXCEPT !.eds[i] = DeclaredEds(eds_s, eds_Eoff)]
        based == system_init(declared, i, potential, smplr, temperature, start_position)
        with_s == s_setter(based, i, based.eds[i]._currentEdsS)
    IN  Eoff_setter(with_s, i, with_s.eds[i]._currentEdsEoffs)

\* edsSystem.set_current_state
set_current_state(w, i, currentPosition, currentVelocities, currentForce, current_s, current_Eoff, currentTemperature) ==
    LET assigned == [w EXCEPT !.eds[i]._currentPosition = currentPosition,
                              !.eds[i]._currentForce = currentForce,
                              !.eds[i]._currentVelocities = currentVelocities,
                              !.eds[i]._currentTemperature = currentTemperature,
                              !.eds[i]._currentEdsS = current_s,
                              !.eds[i]._currentEdsEoffs = current_Eoff]
    IN  updateCurrentState(updateSystemProperties(assigned, i), i)

\* append_state appending the snapshot it found instead of the one it computes
append_state_stale(w, i, newPosition, newVelocity, newForces, newS, newEoff) ==
    LET assigned == [w EXCEPT !.eds[i]._currentPosition = newPosition,
                              !.eds[i]._currentVelocities = newVelocity,
                              !.eds[i]._currentForce = newForces,
                              !.eds[i]._currentEdsS = newS,
                              !.eds[i]._currentEdsEoffs = newEoff]
        appended == [assigned EXCEPT !.eds[i].trajectory = Append(@, assigned.eds[i].currentState)]
    IN  updateCurrentState(updateSystemProperties(appended, i), i)

\* edsSystem.append_state; DataFrame.append(record, ignore_index=True) gives the
\* rows there were, in their order, followed by the record
append_state(w, i, newPosition, newVelocity, newForces, newS, newEoff) ==
    LET assigned == [w EXCEPT !.eds[i]._currentPosition = newPosition,
                              !.eds[i]._currentVelocities = newVelocity,
                              !.eds[i]._currentForce = newForces,
                              !.eds[i]._currentEdsS = newS,
                              !.eds[i]._currentEdsEoffs = newEoff]
        updated == updateCurrentState(updateSystemProperties(assigned, i), i)
    IN  [updated EXCEPT !.eds[i].trajectory = Append(@, updated.eds[i].currentState)]

\* metropolisMonteCarloIntegrator.step(system) on instance i, as one call that
\* ends by accepting the shift drawn last: what it leaves in the sampler and in
\* the system, and the tuple it returns
sampler_step(w, i, shift) ==
    LET self == w.eds[i].sampler
        oldpos == w.eds[i].currentState.position
        position == oldpos + shift[1]
    IN  [w |-> [w EXCEPT !.heap[self].oldpos = Num(oldpos),
                         !.heap[self].posShift = shift,
                         !.heap[self].newPos = Num(oldpos),
                         !.eds[i]._currentPosition = position,
                         !.eds[i]._currentForce = shift[1]],
         result |-> <<Num(position), NaN, Num(shift[1])>>]

\* system.step(): the sampler steps, and the state it returns is appended with
\* the s and the Eoff of the system
system_step(w, i, shift) ==
    LET stepped == sampler_step(w, i, shift)
    IN  append_state(stepped.w, i, stepped.result[1].v, stepped.result[2], stepped.result[3].v,
                     stepped.w.eds[i]._currentEdsS, stepped.w.eds[i]._currentEdsEoffs)

World == [eds |-> eds, heap |-> heap]
Constructed(i) == eds[i].cls = "edsSystem"

\* the call made last: its name, the instance it was made on and its arguments
EdsCall(op, i, args) == [op |-> op, self |-> i, args |-> args]

\* a call on the instance i ends in the world w
EdsEnds(op, i, args, w) ==
    /\ eds' = w.eds
    /\ heap' = w.heap
    /\ frame' = EdsCall(op, i, args)
    /\ UNCHANGED <<sampler, langevin, system, pc, ret, warnings>>

Eds_Construct(i) ==
    /\ ~Constructed(i)
    /\ \E objects \in {<<DefaultPotential, DefaultSampler>>, <<OwnPotential(i), OwnSampler(i)>>},
          eds_s \in SValues :
         EdsEnds("__init__", i, <<objects[1], objects[2], eds_s>>,
                 edsSystem_init(World, i, objects[1], objects[2], DefaultTemperature, 0, eds_s, <<0, 0>>))
    /\ UNCHANGED calls

Eds_set_s(i) ==
    /\ Constructed(i)
    /\ calls < MaxOps
    /\ \E s \in SValues : EdsEnds("set_s", i, <<s>>, s_setter(World, i, s))
    /\ calls' = calls + 1

Eds_set_Eoff(i) ==
    /\ Constructed(i)
    /\ calls < MaxOps
    /\ \E Eoff \in EoffValues : EdsEnds("set_Eoff", i, <<Eoff>>, Eoff_setter(World, i, Eoff))
    /\ calls' = calls + 1

Eds_set_current_state(i) ==
    /\ Constructed(i)
    /\ calls < MaxOps
    /\ \E given \in StateInputs :
         EdsEnds("set_current_state", i, given,
                 set_current_state(World, i, given[1], Num(0), 0, given[2], given[3], DefaultTemperature))
    /\ calls' = calls + 1

Eds_append_state(i) ==
    /\ Constructed(i)
    /\ calls < MaxOps
    /\ \E given \in StateInputs :
         EdsEnds("append_state", i, given,
                 append_state(World, i, given[1], Num(0), 0, given[2], given[3]))
    /\ calls' = calls + 1

Eds_step(i) ==
    /\ Constructed(i)
    /\ calls < MaxOps
    /\ \E sign \in Signs(1), draw \in Draws(heap[eds[i].sampler], 1) :
         LET shift == random_shift(heap[eds[i].sampler], 1, sign, draw)
         IN  EdsEnds("step", i, <<shift>>, system_step(World, i, shift))
    /\ calls' = calls + 1

InitEds ==
    /\ sampler = NoSampler
    /\ langevin = NoLangevin
    /\ system = NoSystem
    /\ pc = "idle"
    /\ frame = EdsCall("none", 0, <<>>)
    /\ ret = NoResult
    /\ warnings = <<>>
    /\ calls = 0
    /\ eds = [i \in EdsIds |-> NoEds]
    /\ heap = InitialHeap

NextEds ==
    \E i \in EdsIds :
        \/ Eds_Construct(i)
        \/ Eds_set_s(i)
        \/ Eds_set_Eoff(i)
        \/ Eds_set_current_state(i)
        \/ Eds_append_state(i)
        \/ Eds_step(i)

SpecEds == InitEds /\ [][NextEds]_vars

----------------------------------------------------------------------------
(* Claims about edsSystem, under SpecEds *)

\* C11: after every public operation of edsSystem (construction,
\* set_current_state, append_state, set_s, set_Eoff) currentState equals the
\* snapshot built from the current scratch fields.
C11_CurrentStateIsSnapshot ==
    \A i \in EdsIds : Constructed(i) => eds[i].currentState = Snapshot(eds[i])

LastCall(op, i) == frame.op = op /\ frame.self = i

\* C12: each append_state call lengthens the trajectory by exactly one record,
\* the currentState just recomputed from the new position, velocity, force, s
\* and Eoff, and keeps every earlier record in its place; so does the
\* append_state that a step makes.
C12_AppendKeepsHistory ==
    [][\A i \in EdsIds :
          /\ (frame'.op \in {"append_state", "step"} /\ frame'.self = i) =>
                /\ eds'[i].trajectory = Append(eds[i].trajectory, eds'[i].currentState)
                /\ eds'[i].currentState = Snapshot(eds'[i])
          /\ (frame'.op = "append_state" /\ frame'.self = i) =>
                /\ eds'[i].currentState.position = frame'.args[1]
                /\ eds'[i].currentState.velocity = Num(0)
                /\ eds'[i].currentState.dhdpos = 0
                /\ eds'[i].currentState.s = frame'.args[2]
                /\ eds'[i].currentState.Eoff = frame'.args[3]]_vars

C12_Witness ==
    \E i \in EdsIds :
        /\ LastCall("append_state", i)
        /\ Len(eds[i].trajectory) = 2
        /\ eds[i].trajectory[1] = eds[i].trajectory[2]
        /\ eds[i].trajectory[2] = eds[i].currentState

\* the aggregate energies are those of the scratch fields under the evaluators
\* that the potential holds now
EnergiesRefreshed(i) ==
    /\ eds[i]._currentTotPot = envelopedEne(heap[eds[i].potential], eds[i]._currentPosition)
    /\ eds[i]._currentTotKin = KineticEnergy(eds[i]._currentVelocities)
    /\ eds[i]._currentTotE = [pot |-> eds[i]._currentTotPot, kin |-> eds[i]._currentTotKin]

\* C13: set_s(x) leaves the system's s at x, the owned potential's s at x with
\* evaluators compiled from x, and the aggregate energies computed by those
\* evaluators; set_Eoff(v) does the same for the energy offsets.
C13_SettersPushAndRefresh ==
    \A i \in EdsIds :
        /\ LastCall("set_s", i) =>
              /\ eds[i]._currentEdsS = frame.args[1]
              /\ heap[eds[i].potential].s = frame.args[1]
              /\ heap[eds[i].potential].compiled.s = frame.args[1]
              /\ EnergiesRefreshed(i)
        /\ LastCall("set_Eoff", i) =>
              /\ eds[i]._currentEdsEoffs = frame.args[1]
              /\ heap[eds[i].potential].Eoff_i = frame.args[1]
              /\ heap[eds[i].potential].compiled.Eoff_i = frame.args[1]
              /\ EnergiesRefreshed(i)

C13_Witness ==
    \E i \in EdsIds :
        /\ LastCall("set_s", i)
        /\ frame.args[1] = MaxS
        /\ eds[i]._currentEdsEoffs = <<0, MaxEoff>>
        /\ eds[i]._currentTotPot = [s |-> MaxS, Eoff_i |-> <<0, MaxEoff>>, r |-> eds[i]._currentPosition]
        /\ eds[i].currentState.totPotEnergy # eds[i]._currentTotPot

\* what is seen through instance j of its potential's constants and of its
\* sampler's scratch fields
Observed(j) ==
    [s |-> heap[eds[j].potential].s,
     Eoff |-> heap[eds[j].potential].Eoff_i,
     oldpos |-> heap[eds[j].sampler].oldpos,
     posShift |-> heap[eds[j].sampler].posShift,
     newPos |-> heap[eds[j].sampler].newPos]

\* C14: two edsSystem instances, also two built with the default arguments,
\* share no mutable state: set_s, set_Eoff or a sampler step on one never
\* changes the potential constants or the sampler scratch fields seen through
\* the other.
C14_NoSharedState ==
    [][\A i, j \in EdsIds :
          (/\ i # j
           /\ Constructed(i)
           /\ Constructed(j)
           /\ frame'.self = i
           /\ frame'.op \in {"set_s", "set_Eoff", "step"}) => Observed(j)' = Observed(j)]_vars

\* C26: after construction and after every edsSystem operation, the s and the
\* Eoff that the system reports are the s and the Eoff_i that its potential
\* holds and its evaluators were compiled with, and so are those of the record
\* that append_state has just written.
C26_SystemAndPotentialAgree ==
    \A i \in EdsIds :
        Constructed(i) =>
            LET potential == heap[eds[i].potential]
            IN  /\ eds[i]._currentEdsS = potential.s
                /\ eds[i]._currentEdsEoffs = potential.Eoff_i
                /\ potential.compiled = [s |-> potential.s, Eoff_i |-> potential.Eoff_i]
                /\ LastCall("append_state", i) =>
                      /\ eds[i].trajectory[Len(eds[i].trajectory)].s = potential.s
                      /\ eds[i].trajectory[Len(eds[i].trajectory)].Eoff = potential.Eoff_i

----------------------------------------------------------------------------
(* exponentialCoupledPotentials and hybridCoupledPotentials                  *)
(* (src/ensembler/potentials/OneD.py): the constants mapping and its setters *)
(*                                                                           *)
(* heap holds the one potential under Subject.  constants maps the names of  *)
(* the class's symbols to their values, the state potentials appearing as    *)
(* the potential they were taken from; compiled holds the constants that the *)
(* evaluators in use were compiled from.                                     *)

Subject == <<"potential", 1>>

\* the pairs of energy offsets given to exponentialCoupledPotentials
EoffPairs == {<<a, b>> : a \in 0..MaxEoff, b \in 0..MaxEoff}

\* the harmonic oscillators that are the defaults of Va and Vb, k being
\* abstracted to the values of PlainPotentials
StatePotentials == [Va |-> [k |-> 2, x_shift |-> 0, y_shift |-> 0], Vb |-> [k |-> 2, x_shift |-> 1, y_shift |-> 0]]

\* exponentialCoupledPotentials.__init__
NewExponentialCoupled(eoffA, eoffB, s, temp) ==
    LET constants == [Va |-> StatePotentials.Va, Vb |-> StatePotentials.Vb,
                      eoffA |-> eoffA, eoffB |-> eoffB, s |-> s, temp |-> temp]
    IN  [cls |-> "exponentialCoupledPotentials", statePotentials |-> StatePotentials,
         constants |-> constants, compiled |-> constants]

\* hybridCoupledPotentials.__init__; lam, a fraction, is given in halves
NewHybridCoupled(lam, s, temp) ==
    LET constants == [Va |-> StatePotentials.Va, Vb |-> StatePotentials.Vb,
                      lam |-> lam, s |-> s, temp |-> temp]
    IN  [cls |-> "hybridCoupledPotentials", statePotentials |-> StatePotentials,
         constants |-> constants, compiled |-> constants]

\* the names an instance of the class resolves as attributes holding a symbol
Symbols(self) ==
    IF self.cls = "exponentialCoupledPotentials"
    THEN {"position", "s", "temp", "eoffA", "eoffB", "Va", "Vb"}
    ELSE {"lam", "position", "s", "temp", "Va", "Vb"}

\* _update_functions(): the evaluators are compiled anew from the constants
update_functions(self) == [self EXCEPT !.compiled = self.constants]

\* set_s(s), the same in both classes
coupled_set_s(self, s) ==
    Returned(<<update_functions([self EXCEPT !.constants.s = s])>>)

NoAttributeEoff == "AttributeError: 'hybridCoupledPotentials' object has no attribute 'Eoff'"

\* set_Eoff: exponentialCoupledPotentials takes a pair, hybridCoupledPotentials
\* looks up self.Eoff for the key of the update
coupled_set_Eoff(self, Eoff) ==
    IF self.cls = "exponentialCoupledPotentials"
    THEN Returned(<<update_functions([self EXCEPT !.constants.eoffA = Eoff[1],
                                                 !.constants.eoffB = Eoff[2]])>>)
    ELSE IF "Eoff" \in Symbols(self)
    THEN Returned(<<update_functions([self EXCEPT !.constants = [n \in DOMAIN @ \cup {"Eoff"} |-> IF n = "Eoff" THEN Eoff ELSE @[n]]])>>)
    ELSE Raised(NoAttributeEoff)

\* a call of a setter ends: with the object it leaves, or with the raise and
\* the object as it was
CoupledEnds(op, args, outcome) ==
    /\ heap' = [heap EXCEPT ![Subject] = IF outcome.kind = "return" THEN outcome.value[1] ELSE @]
    /\ ret' = [outcome EXCEPT !.value = <<>>]
    /\ frame' = EdsCall(op, 0, args)
    /\ calls' = calls + 1
    /\ UNCHANGED <<sampler, langevin, system, pc, warnings, eds>>

Coupled_set_s ==
    /\ calls < MaxOps
    /\ \E s \in SValues : CoupledEnds("set_s", <<s>>, coupled_set_s(heap[Subject], s))

\* what set_Eoff is given: a pair by its annotation in the one class, a number
\* in the other
SetEoffArguments(self) == IF self.cls = "exponentialCoupledPotentials" THEN EoffPairs ELSE 0..MaxEoff

Coupled_set_Eoff ==
    /\ calls < MaxOps
    /\ \E Eoff \in SetEoffArguments(heap[Subject]) : CoupledEnds("set_Eoff", <<Eoff>>, coupled_set_Eoff(heap[Subject], Eoff))

InitCoupled ==
    /\ sampler = NoSampler
    /\ langevin = NoLangevin
    /\ system = NoSystem
    /\ pc = "idle"
    /\ frame = EdsCall("none", 0, <<>>)
    /\ ret = NoResult
    /\ warnings = <<>>
    /\ calls = 0
    /\ eds = NoObjects
    /\ \E potential \in {NewExponentialCoupled(e[1], e[2], s, DefaultTemperature) : e \in EoffPairs, s \in 1..(MaxS + 1)}
                        \cup {NewHybridCoupled(lam, s, DefaultTemperature) : lam \in 0..2, s \in 1..(MaxS + 1)} :
         heap = [o \in {Subject} |-> potential]

NextCoupled == Coupled_set_s \/ Coupled_set_Eoff

SpecCoupled == InitCoupled /\ [][NextCoupled]_vars

\* the constants a setter is named after
NamedBy(op, self) ==
    IF op = "set_s" THEN {"s"}
    ELSE IF self.cls = "exponentialCoupledPotentials" THEN {"eoffA", "eoffB"}
    ELSE {"Eoff"}

\* C15: on exponentialCoupledPotentials and hybridCoupledPotentials, set_s(x)
\* and set_Eoff(v) complete without error, change exactly the named constants,
\* leave every other constant and statePotentials as they were, and end with
\* evaluators compiled from the constants as they now are.
C15_SettersChangeNamedConstants ==
    [][frame'.op \in {"set_s", "set_Eoff"} =>
          /\ ret'.kind = "return"
          /\ heap'[Subject].statePotentials = heap[Subject].statePotentials
          /\ DOMAIN heap'[Subject].constants = DOMAIN heap[Subject].constants
          /\ \A n \in DOMAIN heap[Subject].constants \ NamedBy(frame'.op, heap[Subject]) :
                heap'[Subject].constants[n] = heap[Subject].constants[n]
          /\ frame'.op = "set_s" => heap'[Subject].constants.s = frame'.args[1]
          /\ (frame'.op = "set_Eoff" /\ heap[Subject].cls = "exponentialCoupledPotentials") =>
                /\ heap'[Subject].constants.eoffA = frame'.args[1][1]
                /\ heap'[Subject].constants.eoffB = frame'.args[1][2]
          /\ heap'[Subject].compiled = heap'[Subject].constants]_vars

----------------------------------------------------------------------------
(* wavePotential (src/ensembler/potentials/OneD.py): degrees and radians     *)
(*                                                                           *)
(* An angle is kept exactly, as rad + deg * pi / 180 with integers rad and   *)
(* deg: the position x taken as radians is [rad |-> x, deg |-> 0] and        *)
(* np.deg2rad(x) is [rad |-> 0, deg |-> x].  The cosine and the sine of a    *)
(* whole number of quarter turns are the integers they are; of any other     *)
(* angle they are the term naming the angle, which for the angles occurring  *)
(* here (a whole number of radians that is not 0) is a value different from  *)
(* every integer and from the term of every other such angle up to the       *)
(* symmetry of the function.                                                 *)

\* the test positions are 0, 90, ..., 90 * MaxQuarters
MaxQuarters == 3

TestPositions == {90 * q : q \in 0..MaxQuarters}

Radians(x) == [rad |-> x, deg |-> 0]
\* np.deg2rad(positions)
deg2rad(x) == [rad |-> 0, deg |-> x]

IsQuarterTurns(angle) == angle.rad = 0 /\ angle.deg % 90 = 0
Quarter(angle) == (angle.deg \div 90) % 4
Negative(angle) == angle.rad < 0 \/ (angle.rad = 0 /\ angle.deg < 0)
Opposite(angle) == [rad |-> -angle.rad, deg |-> -angle.deg]

\* amplitude * cos(angle) + y_shift
CosTerm(amplitude, angle, y_shift) ==
    IF IsQuarterTurns(angle)
    THEN Num(amplitude * (CASE Quarter(angle) = 0 -> 1 [] Quarter(angle) = 2 -> -1 [] OTHER -> 0) + y_shift)
    ELSE [tag |-> "cos", v |-> IF Negative(angle) THEN Opposite(angle) ELSE angle,
          amplitude |-> amplitude, y_shift |-> y_shift]

\* -amplitude * sin(angle)
MinusSinTerm(amplitude, angle) ==
    IF IsQuarterTurns(angle)
    THEN Num(-amplitude * (CASE Quarter(angle) = 1 -> 1 [] Quarter(angle) = 3 -> -1 [] OTHER -> 0))
    ELSE [tag |-> "sin", v |-> IF Negative(angle) THEN Opposite(angle) ELSE angle,
          amplitude |-> IF Negative(angle) THEN amplitude ELSE -amplitude]

\* multiplicity * (position + phase_shift), phase_shift being in radians
WaveArgument(self, angle) ==
    [rad |-> self.constants.multiplicity * (angle.rad + self.constants.phase_shift),
     deg |-> self.constants.multiplicity * angle.deg]

\* tmp_Vfunc: the evaluator of V_functional = A cos(m (r + w)) + Voff
tmp_Vfunc(self, angle) ==
    CosTerm(self.constants.amplitude, WaveArgument(self, angle), self.constants.y_shift)

\* tmp_dVdpfunc: the evaluator of diff(V, r) = -A m sin(m (r + w))
tmp_dVdpfunc(self, angle) ==
    MinusSinTerm(self.constants.amplitude * self.constants.multiplicity, WaveArgument(self, angle))

\* set_degrees(degrees) for degrees true, and what set_radians(False) comes to:
\* both evaluators are rebound to the functions that convert first
wave_bind_degrees(self) ==
    [self EXCEPT !.radians = FALSE, !.calculate_energies = "deg2rad", !.calculate_dVdpos = "deg2rad"]

\* set_radians(True) setting the flag and leaving the evaluators bound as they were
wave_set_radians_flag_only(self, radians) ==
    IF radians THEN [self EXCEPT !.radians = TRUE] ELSE wave_bind_degrees(self)

\* set_radians(radians)
wave_set_radians(self, radians) ==
    IF radians
    THEN [self EXCEPT !.radians = TRUE, !.calculate_energies = "tmp", !.calculate_dVdpos = "tmp"]
    ELSE wave_bind_degrees(self)

\* set_degrees(degrees)
wave_set_degrees(self, degrees) ==
    IF degrees THEN wave_bind_degrees(self) ELSE wave_set_radians(self, ~degrees)

\* _potential1DCls._update_functions: both evaluators are compiled anew from
\* the constants and bound to self
potential1D_update_functions(self) ==
    [self EXCEPT !.calculate_energies = "tmp", !.calculate_dVdpos = "tmp"]

\* wavePotential._update_functions: the base class's, after which tmp_Vfunc and
\* tmp_dVdpfunc name the evaluators just bound; self.radians is not consulted
wave_update_functions(self) == potential1D_update_functions(self)

\* wavePotential.__init__: the constants, the evaluators compiled and kept as
\* tmp_Vfunc and tmp_dVdpfunc, then set_radians(radians)
NewWave(amplitude, multiplicity, phase_shift, y_shift, radians) ==
    wave_set_radians([cls |-> "wavePotential",
                      constants |-> [amplitude |-> amplitude, multiplicity |-> multiplicity,
                                     phase_shift |-> phase_shift, y_shift |-> y_shift],
                      radians |-> FALSE, calculate_energies |-> "tmp", calculate_dVdpos |-> "tmp"],
                     radians)

\* wavePotential() with the defaults 1.0, 1.0, 0.0, 0.0 and False
DefaultWave == NewWave(1, 1, 0, 0, FALSE)

\* self._calculate_energies(positions) for one position
calculate_energies(self, x) ==
    IF self.calculate_energies = "deg2rad" THEN tmp_Vfunc(self, deg2rad(x)) ELSE tmp_Vfunc(self, Radians(x))

\* self._calculate_dVdpos(positions) for one position
calculate_dVdpos(self, x) ==
    IF self.calculate_dVdpos = "deg2rad" THEN tmp_dVdpfunc(self, deg2rad(x)) ELSE tmp_dVdpfunc(self, Radians(x))

\* what was done to the potential: how it was built, the setters called on it
\* since, and the evaluation made last
WaveFrame(built, history, evaluated) == [built |-> built, history |-> history, evaluated |-> evaluated]

Wave_set_degrees ==
    /\ calls < MaxOps
    /\ \E degrees \in BOOLEAN :
         /\ heap' = [heap EXCEPT ![Subject] = wave_set_degrees(@, degrees)]
         /\ frame' = [frame EXCEPT !.history = Append(@, <<"set_degrees", degrees>>)]
    /\ calls' = calls + 1
    /\ UNCHANGED <<sampler, langevin, system, pc, ret, warnings, eds>>

Wave_set_radians ==
    /\ calls < MaxOps
    /\ \E radians \in BOOLEAN :
         /\ heap' = [heap EXCEPT ![Subject] = wave_set_radians(@, radians)]
         /\ frame' = [frame EXCEPT !.history = Append(@, <<"set_radians", radians>>)]
    /\ calls' = calls + 1
    /\ UNCHANGED <<sampler, langevin, system, pc, ret, warnings, eds>>

Wave_update_functions ==
    /\ calls < MaxOps
    /\ heap' = [heap EXCEPT ![Subject] = wave_update_functions(@)]
    /\ frame' = [frame EXCEPT !.history = Append(@, <<"_update_functions", TRUE>>)]
    /\ calls' = calls + 1
    /\ UNCHANGED <<sampler, langevin, system, pc, ret, warnings, eds>>

Wave_ene ==
    /\ \E x \in TestPositions :
         /\ ret' = Returned(<<calculate_energies(heap[Subject], x)>>)
         /\ frame' = [frame EXCEPT !.evaluated = <<"ene", x>>]
    /\ UNCHANGED <<sampler, langevin, system, pc, warnings, calls, eds, heap>>

Wave_dVdpos ==
    /\ \E x \in TestPositions :
         /\ ret' = Returned(<<calculate_dVdpos(heap[Subject], x)>>)
         /\ frame' = [frame EXCEPT !.evaluated = <<"dVdpos", x>>]
    /\ UNCHANGED <<sampler, langevin, system, pc, warnings, calls, eds, heap>>

InitWave ==
    /\ sampler = NoSampler
    /\ langevin = NoLangevin
    /\ system = NoSystem
    /\ pc = "idle"
    /\ ret = NoResult
    /\ warnings = <<>>
    /\ calls = 0
    /\ eds = NoObjects
    /\ \E radians \in BOOLEAN :
         /\ heap = [o \in {Subject} |-> NewWave(1, 1, 0, 0, radians)]
         /\ frame = WaveFrame(radians, <<>>, <<>>)

NextWave ==
    Wave_set_degrees \/ Wave_set_radians \/ Wave_update_functions \/ Wave_ene \/ Wave_dVdpos

SpecWave == InitWave /\ [][NextWave]_vars

\* a potential built with the default arguments on which set_degrees(True) and
\* then set_radians(True) were called, and nothing else
RoundTripped ==
    /\ frame.built = FALSE
    /\ frame.history = <<<<"set_degrees", TRUE>>, <<"set_radians", TRUE>>>>

SameOutputs(self, other, x) ==
    /\ calculate_energies(self, x) = calculate_energies(other, x)
    /\ calculate_dVdpos(self, x) = calculate_dVdpos(other, x)

ConvertsOnce(self) ==
    /\ self.calculate_energies = "deg2rad"
    /\ self.calculate_dVdpos = "deg2rad"
    /\ \A x \in TestPositions :
          /\ calculate_energies(self, x) = tmp_Vfunc(self, deg2rad(x))
          /\ calculate_dVdpos(self, x) = tmp_dVdpfunc(self, deg2rad(x))

\* C22: after any sequence of set_degrees, set_radians and _update_functions
\* calls on a wavePotential, the radians flag is False exactly when the energy
\* and the derivative evaluators convert their argument from degrees to
\* radians once before the compiled evaluator is called.
C22_FlagAgreesWithEvaluators ==
    ~heap[Subject].radians <=> ConvertsOnce(heap[Subject])

----------------------------------------------------------------------------
(* flatwellPotential (src/ensembler/potentials/OneD.py)                      *)

\* a batch holds 1..MaxBatch positions
MaxBatch == 2

\* the defaults of y_min and y_max
DefaultYMin == 0
DefaultYMax == 1000

\* flatwellPotential.__init__
NewFlatwell(x_range, y_max, y_min) ==
    [cls |-> "flatwellPotential",
     x_min |-> Min2(x_range[1], x_range[2]),
     x_max |-> Max2(x_range[1], x_range[2]),
     y_max |-> y_max,
     y_min |-> y_min]

\* np.squeeze of a list of results: the value itself when there is one
Squeeze(results) == IF Len(results) = 1 THEN results[1] ELSE results

\* _calculate_energies(position)
flatwell_calculate_energies(self, position) ==
    Squeeze([n \in 1..Len(position) |->
                IF position[n] >= self.x_min /\ position[n] <= self.x_max
                THEN Num(self.y_min) ELSE Num(self.y_max)])

\* _calculate_dVdpos testing the lower boundary only
flatwell_calculate_dVdpos_lower_only(self, positions) ==
    Squeeze([n \in 1..Len(positions) |->
                IF positions[n] = self.x_min THEN Inf ELSE Num(0)])

\* _calculate_dVdpos(positions)
flatwell_calculate_dVdpos(self, positions) ==
    Squeeze([n \in 1..Len(positions) |->
                IF positions[n] = self.x_min \/ positions[n] = self.x_max THEN Inf ELSE Num(0)])

\* the positions evaluated: from one below the least bound to one above the largest
FlatwellPositions == (-1)..(MaxPos + 1)
Batches == UNION {[1..n -> FlatwellPositions] : n \in 1..MaxBatch}

Flatwell_ene ==
    /\ \E position \in Batches :
         /\ ret' = Returned(flatwell_calculate_energies(heap[Subject], position))
         /\ frame' = [frame EXCEPT !.op = "ene", !.args = position]
    /\ UNCHANGED <<sampler, langevin, system, pc, warnings, calls, eds, heap>>

Flatwell_dVdpos ==
    /\ \E positions \in Batches :
         /\ ret' = Returned(flatwell_calculate_dVdpos(heap[Subject], positions))
         /\ frame' = [frame EXCEPT !.op = "dVdpos", !.args = positions]
    /\ UNCHANGED <<sampler, langevin, system, pc, warnings, calls, eds, heap>>

InitFlatwell ==
    /\ sampler = NoSampler
    /\ langevin = NoLangevin
    /\ system = NoSystem
    /\ pc = "idle"
    /\ ret = NoResult
    /\ warnings = <<>>
    /\ calls = 0
    /\ eds = NoObjects
    /\ \E x_range \in (0..MaxPos) \X (0..MaxPos) :
         /\ heap = [o \in {Subject} |-> NewFlatwell(x_range, DefaultYMax, DefaultYMin)]
         /\ frame = EdsCall("__init__", 0, x_range)

NextFlatwell == Flatwell_ene \/ Flatwell_dVdpos

SpecFlatwell == InitFlatwell /\ [][NextFlatwell]_vars

\* the result for the n-th position of the batch evaluated last
ResultAt(n) == IF Len(frame.args) = 1 THEN ret.value ELSE ret.value[n]

Inside(self, x) == self.x_min <= x /\ x <= self.x_max

\* C17: flatwellPotential, with x_min <= x_max the least and the largest of
\* x_range in either order, returns the energy y_min for every position in
\* [x_min, x_max] and y_max for every position outside; its derivative is +inf
\* exactly at x_min and at x_max and 0 at every other position; a batch gives
\* one result per position, in the order of the positions.
C17_FlatWellValues ==
    LET self == heap[Subject]
    IN  /\ self.x_min <= self.x_max
        /\ frame.op \in {"ene", "dVdpos"} =>
              /\ Len(frame.args) > 1 => Len(ret.value) = Len(frame.args)
              /\ \A n \in 1..Len(frame.args) :
                    /\ (frame.op = "ene" /\ Inside(self, frame.args[n])) => ResultAt(n) = Num(self.y_min)
                    /\ (frame.op = "ene" /\ ~Inside(self, frame.args[n])) => ResultAt(n) = Num(self.y_max)
                    /\ (frame.op = "dVdpos" /\ frame.args[n] \in {self.x_min, self.x_max}) => ResultAt(n) = Inf
                    /\ (frame.op = "dVdpos" /\ frame.args[n] \notin {self.x_min, self.x_max}) => ResultAt(n) = Num(0)

C17_Witness ==
    /\ frame.op = "dVdpos"
    /\ heap[Subject].x_min < heap[Subject].x_max
    /\ frame.args = <<heap[Subject].x_max, heap[Subject].x_min - 1>>
    /\ ret.value = <<Inf, Num(0)>>

----------------------------------------------------------------------------
(* envelopedPotential._calculate_dvdpos_singlePos                            *)
(* (src/ensembler/potentials/OneD.py)                                        *)
(*                                                                           *)
(* The potential envelops two or three harmonic oscillators.  The argument   *)
(* position holds, for each state, a batch of positions of one dimension     *)
(* each: position[i][p][1].                                                  *)

RECURSIVE SumSeq(_)
SumSeq(s) == IF s = <<>> THEN 0 ELSE s[1] + SumSeq(Tail(s))

\* the state potentials V_is
EnvelopedStates == UNION {[1..n -> PlainPotentials] : n \in 2..3}

\* V_Is_ene: statePot.ene(state_pos) for the states zipped with position
V_Is_ene(self, position) ==
    [i \in 1..Min2(Len(self.V_is), Len(position)) |->
        [p \in 1..Len(position[i]) |-> ene(self.V_is[i], position[i][p][1])]]

\* V_Is_dhdpos: statePot.force(state_pos) for the states zipped with position
V_Is_dhdpos(self, position) ==
    [i \in 1..Min2(Len(self.V_is), Len(position)) |->
        [p \in 1..Len(position[i]) |-> force(self.V_is[i], position[i][p][1])]]

\* V_Is_posDim_eneSum = np.sum(V_Is_ene.T).T: np.sum without an axis adds up
\* every element, the result is one number
V_Is_posDim_eneSum(self, position) ==
    SumSeq([i \in 1..Len(V_Is_ene(self, position)) |-> SumSeq(V_Is_ene(self, position)[i])])

NotIterable == "TypeError: 'numpy.float64' object is not iterable"
NoFirstState == "IndexError: index 0 is out of bounds"

\* _calculate_dvdpos_singlePos(position): the locals it computes and how it
\* ends.  For each state, map(..., Vn_ene, V_Is_posDim_eneSum) is asked to
\* iterate over the sum, a number, which raises TypeError; with no state the
\* comprehension is empty and position[0] raises IndexError.  The prefactors
\* 1 - Vn_ene / sum are never computed.
calculate_dvdpos_singlePos(self, position) ==
    LET locals == [V_Is_ene |-> V_Is_ene(self, position),
                   V_Is_dhdpos |-> V_Is_dhdpos(self, position),
                   V_Is_posDim_eneSum |-> V_Is_posDim_eneSum(self, position),
                   prefactors |-> <<>>]
    IN  [locals |-> locals,
         outcome |-> IF Len(locals.V_Is_ene) > 0 THEN Raised(NotIterable) ELSE Raised(NoFirstState)]

\* the batches of one-dimensional positions, the same for every state
EnvelopedBatches == UNION {[1..n -> {<<x>> : x \in 0..MaxPos}] : n \in 1..MaxBatch}

Enveloped_dvdpos_singlePos ==
    /\ \E batch \in EnvelopedBatches :
         LET position == [i \in 1..Len(heap[Subject].V_is) |-> batch]
             call == calculate_dvdpos_singlePos(heap[Subject], position)
         IN  /\ ret' = call.outcome
             /\ frame' = [op |-> "_calculate_dvdpos_singlePos", self |-> 0, args |-> position,
                          locals |-> call.locals]
    /\ UNCHANGED <<sampler, langevin, system, pc, warnings, calls, eds, heap>>

InitEnveloped ==
    /\ sampler = NoSampler
    /\ langevin = NoLangevin
    /\ system = NoSystem
    /\ pc = "idle"
    /\ ret = NoResult
    /\ warnings = <<>>
    /\ calls = 0
    /\ eds = NoObjects
    /\ frame = [op |-> "none", self |-> 0, args |-> <<>>, locals |-> <<>>]
    /\ \E V_is \in EnvelopedStates :
         heap = [o \in {Subject} |-> [cls |-> "envelopedPotential", V_is |-> V_is, s |-> 1, Eoff_i |-> [i \in 1..Len(V_is) |-> 0]]]

NextEnveloped == Enveloped_dvdpos_singlePos

SpecEnveloped == InitEnveloped /\ [][NextEnveloped]_vars

\* C18: _calculate_dvdpos_singlePos returns a value for every well-formed
\* position; the weight it applies to each state's gradient is non-negative,
\* the weights of the states sum to 1 (here: to the sum they are the
\* fractions of), and the reference-state derivative it returns is the
\* weighted sum of the per-state derivatives.
C18_NormalizedWeights ==
    frame.op = "_calculate_dvdpos_singlePos" =>
        /\ ret.kind = "return"
        /\ Len(frame.locals.prefactors) = Len(heap[Subject].V_is)
        /\ \A p \in 1..Len(frame.args[1]) :
              /\ \A i \in 1..Len(heap[Subject].V_is) : frame.locals.prefactors[i][p] >= 0
              /\ SumSeq([i \in 1..Len(heap[Subject].V_is) |-> frame.locals.prefactors[i][p]])
                     = frame.locals.V_Is_posDim_eneSum
              /\ ret.value[p] * frame.locals.V_Is_posDim_eneSum
                     = SumSeq([i \in 1..Len(heap[Subject].V_is) |->
                                  frame.locals.prefactors[i][p] * frame.locals.V_Is_dhdpos[i][p]])

----------------------------------------------------------------------------
(* _conditionCls, Constraint and Restraint                                   *)
(* (src/ensembler/conditions/_conditions.py)                                 *)
(*                                                                           *)
(* heap holds one instance under Condition, as object.__new__ of its class   *)
(* leaves it: with the class attribute nDim and nothing of its own.  A       *)
(* string is the sequence of its parts; __class__ inside a method of         *)
(* _conditionCls is that class, a type, for an instance of a subclass too.   *)

Condition == <<"condition", 1>>

ConditionClasses == {"_conditionCls", "Constraint", "Restraint"}

\* the systems handed to a condition: what a condition reads of them
CoupledSystems == [nDim : 1..MaxDim, nStates : 1..MaxDim]

PyStr(parts) == [tag |-> "str", v |-> parts]
ClassCell == [tag |-> "type", v |-> <<"_conditionCls">>]
Unset == [tag |-> "unset", v |-> <<>>]

NewCondition(cls) == [cls |-> cls, nDim |-> 0, system |-> Unset, nStates |-> Unset]

ConcatTypeError == "TypeError: can only concatenate str (not \"type\") to str"

\* a + b where a is the outcome of the expression to the left: str.__add__
\* accepts a str only
str_add(a, b) ==
    IF a.kind = "raise" THEN a
    ELSE IF a.value[1].tag = "str" /\ b.tag = "str"
         THEN Returned(<<PyStr(a.value[1].v \o b.v)>>)
         ELSE Raised(ConcatTypeError)

\* raise NotImplementedError(message): the message is evaluated first
raise_NotImplementedError(message) ==
    IF message.kind = "raise" THEN message ELSE Raised("NotImplementedError")

\* _conditionCls.__init__(sys)
condition_init(self, sys) ==
    raise_NotImplementedError(
        str_add(str_add(Returned(<<PyStr(<<"This ">>)>>), ClassCell),
                PyStr(<<" class is not implemented">>)))

\* _conditionCls.apply()
condition_apply(self) ==
    raise_NotImplementedError(
        str_add(str_add(Returned(<<PyStr(<<"The function step in ">>)>>), ClassCell),
                PyStr(<<" class is not implemented">>)))

\* _conditionCls.coupleSystem(system): the instance after the call
coupleSystem(self, sys) ==
    [self EXCEPT !.system = sys, !.nDim = sys.nDim, !.nStates = sys.nStates]

ConditionCall(op, args) == [op |-> op, self |-> 1, args |-> args]

Condition_init ==
    /\ calls < MaxOps
    /\ \E sys \in CoupledSystems :
         /\ ret' = condition_init(heap[Condition], sys)
         /\ frame' = ConditionCall("__init__", <<sys>>)
    /\ calls' = calls + 1
    /\ UNCHANGED <<sampler, langevin, system, pc, warnings, eds, heap>>

Condition_apply ==
    /\ calls < MaxOps
    /\ ret' = condition_apply(heap[Condition])
    /\ frame' = ConditionCall("apply", <<>>)
    /\ calls' = calls + 1
    /\ UNCHANGED <<sampler, langevin, system, pc, warnings, eds, heap>>

Condition_coupleSystem ==
    /\ calls < MaxOps
    /\ \E sys \in CoupledSystems :
         /\ heap' = [heap EXCEPT ![Condition] = coupleSystem(@, sys)]
         /\ ret' = Returned(<<PyNone>>)
         /\ frame' = ConditionCall("coupleSystem", <<sys>>)
    /\ calls' = calls + 1
    /\ UNCHANGED <<sampler, langevin, system, pc, warnings, eds>>

InitConditions ==
    /\ sampler = NoSampler
    /\ langevin = NoLangevin
    /\ system = NoSystem
    /\ pc = "idle"
    /\ ret = NoResult
    /\ warnings = <<>>
    /\ calls = 0
    /\ eds = NoObjects
    /\ frame = ConditionCall("none", <<>>)
    /\ \E cls \in ConditionClasses : heap = [o \in {Condition} |-> NewCondition(cls)]

NextConditions == Condition_init \/ Condition_apply \/ Condition_coupleSystem

SpecConditions == InitConditions /\ [][NextConditions]_vars

\* C27: on an instance of _conditionCls, Constraint or Restraint, __init__ and
\* apply raise NotImplementedError and nothing else and leave the instance as
\* it was; coupleSystem returns and binds system, nDim and nStates to those of
\* the system given.
C27_OnlyNotImplemented ==
    /\ frame.op \in {"__init__", "apply"} =>
          /\ ret.kind = "raise"
          /\ ret.exc = "NotImplementedError"
    /\ frame.op = "coupleSystem" =>
          /\ ret.kind = "return"
          /\ heap[Condition].system = frame.args[1]
          /\ heap[Condition].nDim = frame.args[1].nDim
          /\ heap[Condition].nStates = frame.args[1].nStates

====
